---- MODULE Spec2Model ----
(***************************************************************************)
(* Chat sidebar of localwriter: the tool-calling event loop of             *)
(* SendButtonListener (plugin/modules/chatbot/panel.py), the ChatSession   *)
(* it drives, the ToolRegistry dispatch behind execute_calc_tool, and the  *)
(* format-preserving replace of plugin/modules/writer/format_support.py.   *)
(***************************************************************************)
EXTENDS Integers, Sequences, FiniteSets, TLC

\* ---------------------------------------------------------------- bounds
MaxRoundsBound == 2     \* max_tool_rounds is drawn from 1..MaxRoundsBound
MaxToolCalls == 2       \* tool calls the model emits in one session
MaxTurns == 1           \* Send clicks in one session
MaxDeltas == 1          \* chunk/thinking deltas streamed in one run
MaxDocLen == 3          \* characters in the document before a replace
MaxNewLen == 5          \* characters of the replacement text
MaxMessages == 5    \* messages a session holds (ChatSession alone)
MaxSearchLen == 2       \* characters of the plain part of a search string
MaxContentLen == 2      \* characters of plain content written to a document

\* ------------------------------------------------------- program constants
\* the configured minimum of max_tool_rounds
MinToolRounds == 1

ASYNC_TOOLS == {"web_research", "generate_image", "edit_image"}

\* name -> doc_types of the registered tools (ToolRegistry._tools)
RegisteredTools ==
  [n \in {"read_cell_range", "web_research", "generate_image",
           "get_document_content"} |->
     CASE n = "read_cell_range" -> {"calc"}
       [] n = "web_research" -> {"writer", "calc", "draw"}
       [] n = "generate_image" -> {"writer", "calc", "draw"}
       [] n = "get_document_content" -> {"writer"}]

\* the names a model may put in a tool call
CallNames == DOMAIN RegisteredTools \cup {"no_such_tool"}

\* a session in which the model calls the data tools (and invents a name),
\* and a session in which it calls the image tool
CallNameSets == {CallNames \ {"generate_image"}, {"generate_image"}}

\* what the tool handler does when it is invoked
HandlerOutcomes == {"ok", "invalid", "raise"}

VARIABLES
  messages,         \* ChatSession.messages
  stop_requested,   \* SendButtonListener.stop_requested
  terminal_status,  \* SendButtonListener._terminal_status
  send_busy,        \* SendButtonListener._send_busy
  mode,             \* which drain loop the main thread is in
  q,                \* the queue.Queue of the running loop
  round_num,
  pending_tools,
  max_tool_rounds,
  thinking_open,
  collected,        \* simple stream: some content chunk was collected
  llm,              \* the streaming worker thread
  async_running,    \* tool calls running on run_async threads
  next_id,          \* ids the model gives to its tool calls
  deltas,           \* deltas streamed in this run
  turns,
  response,         \* markers appended to the response area in this run
  events,           \* log of the run: requests, emits, executions, results
  backend_failed,   \* a model request of this run raised
  doc, doc0, old_text, new_text, start_offset, loop_i, main_cursor, dpc,
  diff_call,        \* the write target running the diff, its toolkit, its yields
  call_names,       \* the tool names the model uses in this session
  doc_access,       \* worker threads that have read or written the document
  wr,               \* the last call of a Writer document tool and its result
  reg,              \* the last ToolRegistry.execute call and what it did
  ses               \* the last ChatSession call and the messages it found

orchVars == <<messages, stop_requested, terminal_status, send_busy, mode, q,
              round_num, pending_tools, max_tool_rounds, thinking_open,
              collected, llm, async_running, next_id, deltas, turns,
              response, events, backend_failed>>
diffVars == <<doc, doc0, old_text, new_text, start_offset, loop_i,
              main_cursor, dpc, diff_call>>
toolVars == <<call_names, doc_access, wr, reg, ses>>
vars == <<orchVars, diffVars, toolVars>>

\* ------------------------------------------------------------ ChatSession
Msg(role, content, tool_calls, tool_call_id) ==
  [role |-> role, content |-> content, tool_calls |-> tool_calls,
   tool_call_id |-> tool_call_id]

NoId == 0

SessionInit == <<Msg("system", "prompt", <<>>, NoId)>>

add_user_message(ms) == Append(ms, Msg("user", "text", <<>>, NoId))

add_assistant_message(ms, content, tool_calls) ==
  Append(ms, Msg("assistant", content, tool_calls, NoId))

add_tool_result(ms, tool_call_id, content) ==
  Append(ms, Msg("tool", content, <<>>, tool_call_id))

IsDocContext(m) == m.role = "system" /\ m.content = "doc"

\* the document context goes to the end of the conversation
update_document_context_Append(ms) ==
  IF \E i \in 1..Len(ms) : IsDocContext(ms[i])
  THEN ms
  ELSE Append(ms, Msg("system", "doc", <<>>, NoId))

update_document_context(ms) ==
  IF \E i \in 1..Len(ms) : IsDocContext(ms[i])
  THEN ms
  ELSE LET insert_at == IF Len(ms) > 0 /\ ms[1].role = "system" THEN 1 ELSE 0
       IN SubSeq(ms, 1, insert_at) \o <<Msg("system", "doc", <<>>, NoId)>>
          \o SubSeq(ms, insert_at + 1, Len(ms))

\* every system message survives the clear
clear_KeepSystem(ms) == SelectSeq(ms, LAMBDA m : m.role = "system")

clear(ms) ==
  LET idx == {i \in 1..Len(ms) : ms[i].role = "system" /\ ~IsDocContext(ms[i])}
  IN IF idx = {} THEN <<>>
     ELSE <<ms[CHOOSE i \in idx : \A j \in idx : i <= j]>>

\* ----------------------------------------------------------- ToolRegistry
Result(status, detail) == [status |-> status, detail |-> detail]
Returned(r) == [raised |-> FALSE, value |-> r]
Raised(e) == [raised |-> TRUE, value |-> e]

\* a registered tool: its doc_types (empty when it declares none), the
\* property names of its parameters schema, and whether it is a mutation
ToolDesc(doc_types, props, is_mutation) ==
  [known |-> TRUE, doc_types |-> doc_types, props |-> props,
   is_mutation |-> is_mutation]

\* self._tools.get(tool_name) is None
UnknownTool ==
  [known |-> FALSE, doc_types |-> {}, props |-> {}, is_mutation |-> FALSE]

\* the context's doc_type when detect_doc_type found none
NoDocType == "none"

\* the compatibility check is missing
DocTypeMismatch_Never(tool, doc_type) == FALSE

\* tool.doc_types and ctx.doc_type and ctx.doc_type not in tool.doc_types
DocTypeMismatch(tool, doc_type) ==
  /\ tool.doc_types # {}
  /\ doc_type # NoDocType
  /\ doc_type \notin tool.doc_types

\* if props: kwargs = {k: v for k, v in kwargs.items() if k in props}
FilterKwargs(props, kwargs) ==
  IF props # {} THEN kwargs \cap props ELSE kwargs

\* the handler's exception leaves execute
HandlerResult_Propagate(h) ==
  IF h = "raise" THEN Raised("exception") ELSE Returned(Result("ok", "done"))

\* try: result = tool.execute(ctx, **kwargs) / except Exception as exc
HandlerResult(h) ==
  IF h = "raise" THEN Returned(Result("error", "exception"))
  ELSE Returned(Result("ok", "done"))

\* the cache is invalidated in batch mode too
Invalidates_IgnoreBatch(tool, batch_mode, services) ==
  tool.is_mutation /\ "document" \in services

\* if tool.detects_mutation() and not self.batch_mode: the document service,
\* when there is one, invalidates the cache of ctx.doc
Invalidates(tool, batch_mode, services) ==
  tool.is_mutation /\ ~batch_mode /\ "document" \in services

\* the except branch emits nothing
Emits_NoFailed(h) ==
  IF h = "raise" THEN <<"tool:executing">>
  ELSE <<"tool:executing", "tool:completed">>

\* what a bus is sent once validation has passed: tool:executing before the
\* handler, tool:failed in the except branch, tool:completed after the try
Emits(h) ==
  IF h = "raise" THEN <<"tool:executing", "tool:failed">>
  ELSE <<"tool:executing", "tool:completed">>

\* DocumentCache.length is None
NoLength == 0 - 1

\* the handler's own change of the document: a mutation that ends normally
\* has inserted one character
LengthAfter(tool, h, length) ==
  IF tool.is_mutation /\ h = "ok" THEN length + 1 ELSE length

\* DocumentCache.length when execute has returned: the invalidation comes
\* before "result = tool.execute(ctx, **kwargs)", and a handler that asks
\* get_document_length before it mutates fills the cache again
CacheAfter(did, cache, reads, length) ==
  LET cleared == IF did.invalidated THEN NoLength ELSE cache
  IN IF did.called /\ reads /\ cleared = NoLength THEN length ELSE cleared

\* ToolRegistry.execute(tool_name, ctx, **kwargs): what it returns or raises,
\* the kwargs it hands on, and what it did on the way. h is what the tool's
\* validate and handler do, services the keys of self._services
execute(tool, doc_type, kwargs, h, batch_mode, services) ==
  LET stopped(out) ==
        [outcome |-> out, passed |-> {}, validated |-> FALSE,
         called |-> FALSE, invalidated |-> FALSE, emitted |-> <<>>]
      kw == FilterKwargs(tool.props, kwargs)
      bus == "events" \in services
  IN IF ~tool.known THEN stopped(Raised("KeyError"))
     ELSE IF DocTypeMismatch(tool, doc_type) THEN stopped(Raised("ValueError"))
     ELSE IF h = "invalid"
     THEN [outcome |-> Returned(Result("error", "validation")),
           passed |-> kw, validated |-> TRUE, called |-> FALSE,
           invalidated |-> FALSE, emitted |-> <<>>]
     ELSE [outcome |-> HandlerResult(h),
           passed |-> kw, validated |-> TRUE, called |-> TRUE,
           invalidated |-> Invalidates(tool, batch_mode, services),
           emitted |-> IF bus THEN Emits(h) ELSE <<>>]

\* the registry of calc/tools.py, built with services={}: the outcome of
\* execute for a registered name; the arguments play no role in it
RegistryExecute(tool_name, doc_type, h) ==
  LET tool == IF tool_name \in DOMAIN RegisteredTools
              THEN ToolDesc(RegisteredTools[tool_name], {}, FALSE)
              ELSE UnknownTool
  IN execute(tool, doc_type, {}, h, FALSE, {}).outcome

\* execute_calc_tool: the registry call inside try/except
execute_calc_tool(tool_name, h) ==
  LET r == RegistryExecute(tool_name, "calc", h)
  IN IF r.raised THEN Returned(Result("error", r.value)) ELSE r

\* the try/except around execute_tool_fn in the loop (sync and run_async)
RunTool(tool_name, h) ==
  LET r == execute_calc_tool(tool_name, h)
  IN IF r.raised THEN Result("error", r.value) ELSE r.value

\* the handler of tool_name, ending as h says, reads or writes ctx.doc:
\* GenerateImageTool.execute inserts the image it got, WebResearchTool.execute
\* works on the network only, the other tools are UNO document tools
TouchesDocument(tool_name, h) ==
  /\ tool_name \in DOMAIN RegisteredTools
  /\ "calc" \in RegisteredTools[tool_name]
  /\ CASE tool_name = "generate_image" -> h = "ok"
       [] tool_name = "web_research" -> FALSE
       [] OTHER -> h # "invalid"

\* ------------------------------------------------------------- the queue
Item(kind, calls, content, id, name, result) ==
  [kind |-> kind, calls |-> calls, content |-> content, id |-> id,
   name |-> name, result |-> result]
NoResult == Result("", "")
Plain(kind) == Item(kind, <<>>, "none", NoId, "", NoResult)

Ev(e, k, id) == [e |-> e, k |-> k, id |-> id]

\* tool calls of one model response: names[i] gets the id first + i - 1
Calls(names, first) ==
  [i \in 1..Len(names) |-> [id |-> first + i - 1, name |-> names[i]]]

NameSeqs == UNION {[1..n -> CallNames] : n \in 0..MaxToolCalls}

Ids(calls) == [i \in 1..Len(calls) |-> calls[i].id]

EmitEvents(calls) == [i \in 1..Len(calls) |-> Ev("emit", "", calls[i].id)]

NoWorker == [kind |-> "none", chunked |-> FALSE]
Worker(kind) == [kind |-> kind, chunked |-> FALSE]

\* ---------------------------------------------------------------- Init
NoDiffCall == [target |-> "none", toolkit |-> FALSE, yields |-> 0]

DiffIdle ==
  /\ doc = <<>> /\ doc0 = <<>> /\ old_text = <<>> /\ new_text = <<>>
  /\ start_offset = 0 /\ loop_i = 0 /\ main_cursor = 0 /\ dpc = "idle"
  /\ diff_call = NoDiffCall

\* the panel before a send, whatever the session holds
OrchIdle ==
  /\ stop_requested = FALSE
  /\ terminal_status = "Ready"
  /\ send_busy = FALSE
  /\ mode = "idle"
  /\ q = <<>>
  /\ round_num = 0
  /\ pending_tools = <<>>
  /\ max_tool_rounds = MinToolRounds
  /\ thinking_open = FALSE
  /\ collected = FALSE
  /\ llm = NoWorker
  /\ async_running = {}
  /\ next_id = 1
  /\ deltas = 0
  /\ turns = 0
  /\ response = {}
  /\ events = <<>>
  /\ backend_failed = FALSE

OrchInit == messages = SessionInit /\ OrchIdle

\* no document tool and no registry call has run yet
NoCall == [op |-> "none"]

ToolIdle ==
  /\ call_names = {} /\ doc_access = {}
  /\ wr = NoCall /\ reg = NoCall /\ ses = NoCall

Init ==
  /\ OrchInit /\ DiffIdle
  /\ call_names \in CallNameSets
  /\ doc_access = {} /\ wr = NoCall /\ reg = NoCall /\ ses = NoCall

\* ------------------------------------------------- SendButtonListener
\* _spawn_llm_worker / _spawn_final_stream: start a streaming thread
SpawnWorker(kind, log) ==
  /\ llm' = Worker(kind)
  /\ events' = Append(log, Ev("req", kind, NoId))

\* the return statements of the event loop, then actionPerformed's finally
Finish(status) ==
  /\ terminal_status' = status
  /\ send_busy' = FALSE
  /\ mode' = "idle"
  /\ q' = <<>>

\* the model is asked although the configuration was rejected
Send_RequestAnyway ==
  /\ ~send_busy
  /\ turns < MaxTurns
  /\ turns' = turns + 1
  /\ stop_requested' = FALSE
  /\ backend_failed' = FALSE
  /\ \E path \in {"no_query", "config_error", "tools", "simple"},
        mr \in MinToolRounds..MaxRoundsBound :
       \/ /\ path = "no_query"
          /\ terminal_status' = ""
          /\ response' = {}
          /\ UNCHANGED <<messages, send_busy, mode, q, round_num,
                         pending_tools, max_tool_rounds, thinking_open,
                         collected, llm, events>>
       \/ /\ path = "config_error"
          /\ terminal_status' = "Error"
          /\ response' = {"config_error"}
          /\ events' = <<Ev("req", "tools", NoId)>>
          /\ UNCHANGED <<messages, send_busy, mode, q, round_num,
                         pending_tools, max_tool_rounds, thinking_open,
                         collected, llm>>
       \/ /\ path \in {"tools", "simple"}
          /\ messages' = add_user_message(update_document_context(messages))
          /\ terminal_status' = "Ready"
          /\ response' = {}
          /\ send_busy' = TRUE
          /\ mode' = path
          /\ q' = <<>>
          /\ round_num' = 0
          /\ pending_tools' = <<>>
          /\ max_tool_rounds' = mr
          /\ thinking_open' = FALSE
          /\ collected' = FALSE
          /\ llm' = Worker(path)
          /\ events' = <<Ev("req", path, NoId)>>
  /\ deltas' = 0
  /\ UNCHANGED <<async_running, next_id>>
  /\ UNCHANGED diffVars
  /\ UNCHANGED toolVars

\* actionPerformed + _do_send
Send ==
  /\ ~send_busy
  /\ turns < MaxTurns
  /\ turns' = turns + 1
  /\ stop_requested' = FALSE
  /\ backend_failed' = FALSE
  /\ \E path \in {"no_query", "config_error", "tools", "simple"},
        mr \in MinToolRounds..MaxRoundsBound :
       \/ /\ path = "no_query"
          /\ terminal_status' = ""
          /\ response' = {}
          /\ UNCHANGED <<messages, send_busy, mode, q, round_num,
                         pending_tools, max_tool_rounds, thinking_open,
                         collected, llm, events>>
       \/ /\ path = "config_error"
          /\ terminal_status' = "Error"
          /\ response' = {"config_error"}
          /\ events' = <<>>
          /\ UNCHANGED <<messages, send_busy, mode, q, round_num,
                         pending_tools, max_tool_rounds, thinking_open,
                         collected, llm>>
       \/ /\ path \in {"tools", "simple"}
          /\ messages' = add_user_message(update_document_context(messages))
          /\ terminal_status' = "Ready"
          /\ response' = {}
          /\ send_busy' = TRUE
          /\ mode' = path
          /\ q' = <<>>
          /\ round_num' = 0
          /\ pending_tools' = <<>>
          /\ max_tool_rounds' = mr
          /\ thinking_open' = FALSE
          /\ collected' = FALSE
          /\ llm' = Worker(path)
          /\ events' = <<Ev("req", path, NoId)>>
  /\ deltas' = 0
  /\ UNCHANGED <<async_running, next_id>>
  /\ UNCHANGED diffVars
  /\ UNCHANGED toolVars

\* StopButtonListener.actionPerformed (the button is enabled during a run)
Stop ==
  /\ send_busy
  /\ stop_requested' = TRUE
  /\ UNCHANGED <<deltas, messages, terminal_status, send_busy, mode, q, round_num,
                 pending_tools, max_tool_rounds, thinking_open, collected,
                 llm, async_running, next_id, turns, response, events,
                 backend_failed>>
  /\ UNCHANGED diffVars
  /\ UNCHANGED toolVars

\* ClearButtonListener.actionPerformed
Clear ==
  /\ messages' = clear(messages)
  /\ UNCHANGED <<deltas, stop_requested, terminal_status, send_busy, mode, q,
                 round_num, pending_tools, max_tool_rounds, thinking_open,
                 collected, llm, async_running, next_id, turns, response,
                 events, backend_failed>>
  /\ UNCHANGED diffVars
  /\ UNCHANGED toolVars

\* ------------------------------------------------------ worker threads
\* append_callback / append_thinking_callback of the streaming thread
WorkerDelta ==
  /\ llm.kind # "none"
  /\ deltas < MaxDeltas
  /\ deltas' = deltas + 1
  /\ \E k \in {"chunk", "thinking"} :
       /\ q' = Append(q, Plain(k))
       /\ llm' = [llm EXCEPT !.chunked = @ \/ k = "chunk"]
  /\ UNCHANGED <<messages, stop_requested, terminal_status, send_busy, mode,
                 round_num, pending_tools, max_tool_rounds, thinking_open,
                 collected, async_running, next_id, turns, response, events,
                 backend_failed>>
  /\ UNCHANGED diffVars
  /\ UNCHANGED toolVars

\* the stream call returns: run() of _spawn_llm_worker, run_final() of
\* _spawn_final_stream, worker() of run_stream_completion_async
WorkerReturn ==
  /\ llm.kind # "none"
  /\ llm' = NoWorker
  /\ IF stop_requested
     THEN /\ q' = Append(q, Plain("stopped"))
          /\ UNCHANGED next_id
     ELSE \/ /\ llm.kind = "tools"
             /\ \E names \in NameSeqs, content \in {"text", "none"} :
                  /\ \A i \in 1..Len(names) : names[i] \in call_names
                  /\ next_id + Len(names) <= MaxToolCalls + 1
                  /\ names # <<>> => content = "none"
                  /\ q' = Append(q, Item("stream_done", Calls(names, next_id),
                                         content, NoId, "", NoResult))
                  /\ next_id' = next_id + Len(names)
          \/ /\ llm.kind = "final"
             /\ q' = Append(q, Item("final_done", <<>>,
                                    IF llm.chunked THEN "text" ELSE "none",
                                    NoId, "", NoResult))
             /\ UNCHANGED next_id
          \/ /\ llm.kind = "simple"
             /\ q' = Append(q, Plain("stream_done"))
             /\ UNCHANGED next_id
  /\ UNCHANGED <<deltas, messages, stop_requested, terminal_status, send_busy, mode,
                 round_num, pending_tools, max_tool_rounds, thinking_open,
                 collected, async_running, turns, response, events,
                 backend_failed>>
  /\ UNCHANGED diffVars
  /\ UNCHANGED toolVars

\* the stream call raises: the except branch of the streaming thread
WorkerRaise ==
  /\ llm.kind # "none"
  /\ llm' = NoWorker
  /\ q' = Append(q, Plain("error"))
  /\ backend_failed' = TRUE
  /\ UNCHANGED <<deltas, messages, stop_requested, terminal_status, send_busy, mode,
                 round_num, pending_tools, max_tool_rounds, thinking_open,
                 collected, async_running, next_id, turns, response, events>>
  /\ UNCHANGED diffVars
  /\ UNCHANGED toolVars

ToolDone(tc, res) == Item("tool_done", <<>>, "none", tc.id, tc.name, res)

\* run_async: the tool returns (or raises) on its thread and posts tool_done
AsyncToolReturn ==
  /\ \E tc \in async_running, h \in HandlerOutcomes :
       LET res == RunTool(tc.name, h)
       IN /\ async_running' = async_running \ {tc}
          /\ q' = IF mode = "tools" THEN Append(q, ToolDone(tc, res)) ELSE q
          /\ doc_access' = IF TouchesDocument(tc.name, h)
                            THEN doc_access \cup {"worker"} ELSE doc_access
  /\ UNCHANGED <<deltas, messages, stop_requested, terminal_status, send_busy, mode,
                 round_num, pending_tools, max_tool_rounds, thinking_open,
                 collected, llm, next_id, turns, response, events,
                 backend_failed>>
  /\ UNCHANGED diffVars
  /\ UNCHANGED <<call_names, wr, reg, ses>>

\* --------------------------------- _start_tool_calling_async: event loop
InLoop(kind) == mode = "tools" /\ q # <<>> /\ Head(q).kind = kind

\* kind == "chunk"
OnChunk ==
  /\ InLoop("chunk")
  /\ thinking_open' = FALSE
  /\ q' = Tail(q)
  /\ UNCHANGED <<deltas, messages, stop_requested, terminal_status, send_busy, mode,
                 round_num, pending_tools, max_tool_rounds, collected, llm,
                 async_running, next_id, turns, response, events,
                 backend_failed>>
  /\ UNCHANGED diffVars
  /\ UNCHANGED toolVars

\* kind == "thinking"
OnThinking ==
  /\ InLoop("thinking")
  /\ thinking_open' = TRUE
  /\ q' = Tail(q)
  /\ UNCHANGED <<deltas, messages, stop_requested, terminal_status, send_busy, mode,
                 round_num, pending_tools, max_tool_rounds, collected, llm,
                 async_running, next_id, turns, response, events,
                 backend_failed>>
  /\ UNCHANGED diffVars
  /\ UNCHANGED toolVars

\* one next_tool token for every call of the response
DispatchTokens_PerCall(calls) == [i \in 1..Len(calls) |-> Plain("next_tool")]

\* q.put(("next_tool",)) after the calls are queued
DispatchTokens(calls) == <<Plain("next_tool")>>

\* a reply without tool calls is not kept in the conversation
OnStreamDone_DropsReply ==
  /\ InLoop("stream_done")
  /\ thinking_open' = FALSE
  /\ LET item == Head(q)
     IN IF item.calls = <<>>
        THEN /\ messages' = messages
             /\ Finish("Ready")
             /\ UNCHANGED <<pending_tools, events>>
        ELSE /\ messages' = add_assistant_message(messages, item.content,
                                                  Ids(item.calls))
             /\ pending_tools' = pending_tools \o item.calls
             /\ events' = events \o EmitEvents(item.calls)
             /\ q' = Tail(q) \o DispatchTokens(item.calls)
             /\ UNCHANGED <<terminal_status, send_busy, mode>>
  /\ UNCHANGED <<deltas, stop_requested, round_num, max_tool_rounds, collected, llm,
                 async_running, next_id, turns, response, backend_failed>>
  /\ UNCHANGED diffVars
  /\ UNCHANGED toolVars

\* kind == "stream_done"
OnStreamDone ==
  /\ InLoop("stream_done")
  /\ thinking_open' = FALSE
  /\ LET item == Head(q)
     IN IF item.calls = <<>>
        THEN /\ messages' = IF item.content # "none"
                            THEN add_assistant_message(messages, item.content,
                                                       <<>>)
                            ELSE messages
             /\ Finish("Ready")
             /\ UNCHANGED <<pending_tools, events>>
        ELSE /\ messages' = add_assistant_message(messages, item.content,
                                                  Ids(item.calls))
             /\ pending_tools' = pending_tools \o item.calls
             /\ events' = events \o EmitEvents(item.calls)
             /\ q' = Tail(q) \o DispatchTokens(item.calls)
             /\ UNCHANGED <<terminal_status, send_busy, mode>>
  /\ UNCHANGED <<deltas, stop_requested, round_num, max_tool_rounds, collected, llm,
                 async_running, next_id, turns, response, backend_failed>>
  /\ UNCHANGED diffVars
  /\ UNCHANGED toolVars

\* the round limit never applies
RoundLimitReached_Never(r, m) == FALSE

\* the round limit applies one round late
RoundLimitReached_OffByOne(r, m) == r > m

\* round_num >= max_tool_rounds
RoundLimitReached(r, m) == r >= m

\* the newest queued call is taken first
PopIndex_Last(pending) == Len(pending)

\* pending_tools.pop(0)
PopIndex(pending) == 1

RemoveAt(seq, i) == SubSeq(seq, 1, i - 1) \o SubSeq(seq, i + 1, Len(seq))

\* the arguments string of a tool call: a JSON object, or text that neither
\* json.loads nor ast.literal_eval can read
ArgumentStrings == {"object", "unparsable"}

\* the call is run with the string's arguments even when it cannot be read
parse_arguments_Keep(func_args_str) == "args"

\* "try: func_args = json.loads(func_args_str) except: try:
\* ast.literal_eval ... except Exception: func_args = {}": the arguments
\* the tool is run with, the string's own or none
parse_arguments(func_args_str) ==
  IF func_args_str = "object" THEN "args" ELSE "empty"

\* kind == "next_tool"
OnNextTool ==
  /\ InLoop("next_tool")
  /\ IF pending_tools = <<>> \/ stop_requested
     THEN /\ round_num' = round_num + 1
          /\ SpawnWorker(IF RoundLimitReached(round_num + 1, max_tool_rounds)
                         THEN "final" ELSE "tools",
                         IF pending_tools # <<>>
                         THEN Append(events, Ev("skip", "", NoId))
                         ELSE events)
          /\ q' = Tail(q)
          /\ UNCHANGED <<pending_tools, async_running, doc_access>>
     ELSE LET tc == pending_tools[PopIndex(pending_tools)]
          IN /\ pending_tools' = RemoveAt(pending_tools,
                                          PopIndex(pending_tools))
             /\ \E func_args_str \in ArgumentStrings :
                  events' = events \o
                    <<Ev("parse", func_args_str, tc.id),
                      Ev("exec", parse_arguments(func_args_str), tc.id)>>
             /\ IF tc.name \in ASYNC_TOOLS
                THEN /\ async_running' = async_running \cup {tc}
                     /\ q' = Tail(q)
                     /\ UNCHANGED doc_access
                ELSE \E h \in HandlerOutcomes :
                       LET res == RunTool(tc.name, h)
                       IN /\ q' = Append(Tail(q), ToolDone(tc, res))
                          /\ UNCHANGED doc_access
                          /\ UNCHANGED async_running
             /\ UNCHANGED <<round_num, llm>>
  /\ UNCHANGED <<deltas, messages, stop_requested, terminal_status, send_busy, mode,
                 max_tool_rounds, thinking_open, collected, next_id, turns,
                 response, backend_failed>>
  /\ UNCHANGED diffVars
  /\ UNCHANGED <<call_names, wr, reg, ses>>

\* OnToolDone that ends the run on an error result
OnToolDone_AbortOnError ==
  /\ InLoop("tool_done")
  /\ LET item == Head(q)
     IN /\ messages' = add_tool_result(messages, item.id, item.result.status)
        /\ events' = Append(events, Ev("apply", "", item.id))
        /\ IF item.result.status = "error"
           THEN Finish("Error")
           ELSE /\ q' = Append(Tail(q), Plain("next_tool"))
                /\ UNCHANGED <<terminal_status, send_busy, mode>>
  /\ UNCHANGED <<deltas, stop_requested, round_num,
                 pending_tools, max_tool_rounds, thinking_open, collected,
                 llm, async_running, next_id, turns, response,
                 backend_failed>>
  /\ UNCHANGED diffVars
  /\ UNCHANGED toolVars

\* kind == "tool_done"
OnToolDone ==
  /\ InLoop("tool_done")
  /\ LET item == Head(q)
     IN /\ messages' = add_tool_result(messages, item.id, item.result.status)
        /\ events' = Append(events, Ev("apply", "", item.id))
  /\ q' = Append(Tail(q), Plain("next_tool"))
  /\ UNCHANGED <<deltas, stop_requested, terminal_status, send_busy, mode, round_num,
                 pending_tools, max_tool_rounds, thinking_open, collected,
                 llm, async_running, next_id, turns, response,
                 backend_failed>>
  /\ UNCHANGED diffVars
  /\ UNCHANGED toolVars

\* kind == "final_done"
OnFinalDone ==
  /\ InLoop("final_done")
  /\ thinking_open' = FALSE
  /\ messages' = IF Head(q).content # "none"
                 THEN add_assistant_message(messages, Head(q).content, <<>>)
                 ELSE messages
  /\ Finish("Ready")
  /\ UNCHANGED <<deltas, stop_requested, round_num, pending_tools, max_tool_rounds,
                 collected, llm, async_running, next_id, turns, response,
                 events, backend_failed>>
  /\ UNCHANGED diffVars
  /\ UNCHANGED toolVars

\* kind == "stopped"
OnStopped ==
  /\ InLoop("stopped")
  /\ thinking_open' = FALSE
  /\ response' = response \cup {"stopped_by_user"}
  /\ Finish("Stopped")
  /\ UNCHANGED <<deltas, messages, stop_requested, round_num, pending_tools,
                 max_tool_rounds, collected, llm, async_running, next_id,
                 turns, events, backend_failed>>
  /\ UNCHANGED diffVars
  /\ UNCHANGED toolVars

\* OnError that drops the conversation of the failed turn
OnError_Rollback ==
  /\ InLoop("error")
  /\ thinking_open' = FALSE
  /\ response' = response \cup {"api_error"}
  /\ messages' = clear(messages)
  /\ Finish("Error")
  /\ UNCHANGED <<deltas, stop_requested, round_num, pending_tools,
                 max_tool_rounds, collected, llm, async_running, next_id,
                 turns, events, backend_failed>>
  /\ UNCHANGED diffVars
  /\ UNCHANGED toolVars

\* kind == "error"
OnError ==
  /\ InLoop("error")
  /\ thinking_open' = FALSE
  /\ response' = response \cup {"api_error"}
  /\ Finish("Error")
  /\ UNCHANGED <<deltas, messages, stop_requested, round_num, pending_tools,
                 max_tool_rounds, collected, llm, async_running, next_id,
                 turns, events, backend_failed>>
  /\ UNCHANGED diffVars
  /\ UNCHANGED toolVars

\* ------------------- _start_simple_stream_async: the completion drain loop
InSimple(kinds) == mode = "simple" /\ q # <<>> /\ Head(q).kind \in kinds

SimpleOnChunk ==
  /\ InSimple({"chunk"})
  /\ thinking_open' = FALSE
  /\ collected' = TRUE
  /\ q' = Tail(q)
  /\ UNCHANGED <<deltas, messages, stop_requested, terminal_status, send_busy, mode,
                 round_num, pending_tools, max_tool_rounds, llm,
                 async_running, next_id, turns, response, events,
                 backend_failed>>
  /\ UNCHANGED diffVars
  /\ UNCHANGED toolVars

SimpleOnThinking ==
  /\ InSimple({"thinking"})
  /\ thinking_open' = TRUE
  /\ q' = Tail(q)
  /\ UNCHANGED <<deltas, messages, stop_requested, terminal_status, send_busy, mode,
                 round_num, pending_tools, max_tool_rounds, collected, llm,
                 async_running, next_id, turns, response, events,
                 backend_failed>>
  /\ UNCHANGED diffVars
  /\ UNCHANGED toolVars

\* "stream_done" and "stopped" both call on_done_fn
SimpleOnDone ==
  /\ InSimple({"stream_done", "stopped"})
  /\ thinking_open' = FALSE
  /\ messages' = add_assistant_message(
                   messages, IF collected THEN "text" ELSE "none", <<>>)
  /\ response' = IF stop_requested THEN response \cup {"stopped_by_user"}
                 ELSE response
  /\ Finish("Ready")
  /\ UNCHANGED <<deltas, stop_requested, round_num, pending_tools, max_tool_rounds,
                 collected, llm, async_running, next_id, turns, events,
                 backend_failed>>
  /\ UNCHANGED diffVars
  /\ UNCHANGED toolVars

SimpleOnError ==
  /\ InSimple({"error"})
  /\ thinking_open' = FALSE
  /\ response' = response \cup {"api_error"}
  /\ Finish("Error")
  /\ UNCHANGED <<deltas, messages, stop_requested, round_num, pending_tools,
                 max_tool_rounds, collected, llm, async_running, next_id,
                 turns, events, backend_failed>>
  /\ UNCHANGED diffVars
  /\ UNCHANGED toolVars

\* ------------------------------------------------------------------ Next
Next ==
  \/ Send \/ Stop \/ Clear
  \/ WorkerDelta \/ WorkerReturn \/ WorkerRaise \/ AsyncToolReturn
  \/ OnChunk \/ OnThinking \/ OnStreamDone \/ OnNextTool \/ OnToolDone
  \/ OnFinalDone \/ OnStopped \/ OnError
  \/ SimpleOnChunk \/ SimpleOnThinking \/ SimpleOnDone \/ SimpleOnError

Spec == Init /\ [][Next]_vars

\* --------------- writer/format_support.py: format-preserving replacement
Chars == {"a", "b"}

\* the style of text inserted where no neighbour gives one
DefaultStyle == 0

Min(a, b) == IF a < b THEN a ELSE b

Char(c, st) == [ch |-> c, st |-> st]

Text(d) == [i \in 1..Len(d) |-> d[i].ch]
Styles(d) == [i \in 1..Len(d) |-> d[i].st]

\* XText.insertString(cursor, str, False) with the collapsed cursor at
\* offset pos: the inserted characters take every character property of the
\* character just before the cursor
InsertString(d, pos, str) ==
  LET st == IF pos >= 1 THEN d[pos].st
            ELSE IF Len(d) >= 1 THEN d[1].st ELSE DefaultStyle
  IN SubSeq(d, 1, pos) \o [i \in 1..Len(str) |-> Char(str[i], st)]
     \o SubSeq(d, pos + 1, Len(d))

\* cursor.goRight(n, True); cursor.setString(""): delete n characters at pos
DeleteAt(d, pos, n) == SubSeq(d, 1, pos) \o SubSeq(d, pos + n + 1, Len(d))

\* documents whose characters all carry their own style run
Docs ==
  UNION {{[i \in 1..n |-> Char(t[i], i)] : t \in [1..n -> Chars]} :
         n \in 0..MaxDocLen}
NewTexts == UNION {[1..n -> Chars] : n \in 0..MaxNewLen}

\* "if i > 0 and i % 500 == 0": the loop hands over to the UI event queue
ProcessEventsEvery == 500

\* the short documents, and one long enough for the loop to reach the
\* hand-over to the event queue
InitDiff ==
  /\ OrchInit
  /\ ToolIdle
  /\ doc \in Docs \cup {[i \in 1..(ProcessEventsEvery + 1) |-> Char("a", i)]}
  /\ doc0 = doc
  /\ old_text = <<>> /\ new_text = <<>>
  /\ start_offset = 0 /\ loop_i = 0 /\ main_cursor = 0 /\ dpc = "idle"
  /\ diff_call = NoDiffCall

\* the write targets of tool_apply_document_content that run the diff on
\* the span s..e of d: a found match, a given range, the whole document
DiffTargets(d, s, e) ==
  {"search", "range"} \cup (IF s = 0 /\ e = Len(d) THEN {"full"} ELSE {})

\* "toolkit = None; if ctx: try: toolkit = createInstanceWithContext(...)
\* except: pass": the toolkit the loop can hold. Target search hands its ctx
\* on; full and range call the diff with three arguments (ctx=None)
Toolkits(target) == IF target = "search" THEN {TRUE, FALSE} ELSE {FALSE}

\* _replace_text_preserving_format up to the character loop
DiffStart ==
  /\ dpc = "idle"
  /\ \E long \in {Len(doc) > MaxDocLen} :
     \E s \in IF long THEN {0} ELSE 0..Len(doc),
        e \in IF long THEN {Len(doc)} ELSE 0..Len(doc),
        nt \in IF long THEN {[i \in 1..Len(doc) |-> "b"]} ELSE NewTexts :
       /\ s <= e
       /\ old_text' = Text(SubSeq(doc, s + 1, e))
       /\ new_text' = nt
       /\ start_offset' = s
       /\ loop_i' = 0
       /\ IF e - s = 0 /\ Len(nt) = 0
          THEN /\ dpc' = "done"
               /\ UNCHANGED <<doc, main_cursor>>
          ELSE IF e - s = 0
          THEN /\ doc' = InsertString(doc, s, nt)
               /\ dpc' = "done"
               /\ UNCHANGED main_cursor
          ELSE /\ main_cursor' = s
               /\ dpc' = "loop"
               /\ UNCHANGED doc
       /\ \E target \in DiffTargets(doc, s, e) :
          \E tk \in IF e - s = 0 THEN {FALSE} ELSE Toolkits(target) :
            diff_call' = [target |-> target, toolkit |-> tk, yields |-> 0]
  /\ UNCHANGED doc0
  /\ UNCHANGED orchVars
  /\ UNCHANGED toolVars

\* DiffStep with the new character inserted before the old one
DiffStep_InsertBefore ==
  /\ dpc = "loop"
  /\ loop_i < Min(Len(old_text), Len(new_text))
  /\ IF new_text[loop_i + 1] = old_text[loop_i + 1]
     THEN UNCHANGED doc
     ELSE doc' = DeleteAt(
                   InsertString(doc, main_cursor, <<new_text[loop_i + 1]>>),
                   main_cursor + 1, 1)
  /\ main_cursor' = main_cursor + 1
  /\ loop_i' = loop_i + 1
  /\ UNCHANGED <<doc0, old_text, new_text, start_offset, dpc, diff_call>>
  /\ UNCHANGED orchVars
  /\ UNCHANGED toolVars

\* DiffStep that rewrites every character, equal or not, by deleting the old
\* one and inserting the new one in its place
DiffStep_RewriteAll ==
  /\ dpc = "loop"
  /\ loop_i < Min(Len(old_text), Len(new_text))
  /\ doc' = InsertString(DeleteAt(doc, main_cursor, 1), main_cursor,
                         <<new_text[loop_i + 1]>>)
  /\ main_cursor' = main_cursor + 1
  /\ loop_i' = loop_i + 1
  /\ UNCHANGED <<doc0, old_text, new_text, start_offset, dpc, diff_call>>
  /\ UNCHANGED orchVars
  /\ UNCHANGED toolVars

\* one iteration of "for i in range(overlap)"; toolkit.processEvents() lets a
\* waiting click on Stop run, which sets stop_requested, and the loop goes on;
\* a processEvents() that raises drops the toolkit for the rest of the loop
DiffStep ==
  /\ dpc = "loop"
  /\ loop_i < Min(Len(old_text), Len(new_text))
  /\ IF loop_i > 0 /\ loop_i % ProcessEventsEvery = 0 /\ diff_call.toolkit
     THEN \/ /\ stop_requested' \in {stop_requested, TRUE}
             /\ diff_call' = [diff_call EXCEPT !.yields = @ + 1]
          \/ /\ diff_call' = [diff_call EXCEPT !.toolkit = FALSE]
             /\ UNCHANGED stop_requested
     ELSE UNCHANGED <<stop_requested, diff_call>>
  /\ IF new_text[loop_i + 1] = old_text[loop_i + 1]
     THEN UNCHANGED doc
     ELSE doc' = DeleteAt(
                   InsertString(doc, main_cursor + 1, <<new_text[loop_i + 1]>>),
                   main_cursor, 1)
  /\ main_cursor' = main_cursor + 1
  /\ loop_i' = loop_i + 1
  /\ UNCHANGED <<doc0, old_text, new_text, start_offset, dpc>>
  /\ UNCHANGED <<messages, terminal_status, send_busy, mode, q, round_num,
                 pending_tools, max_tool_rounds, thinking_open, collected,
                 llm, async_running, next_id, deltas, turns, response,
                 events, backend_failed>>
  /\ UNCHANGED toolVars

\* DiffTail that deletes one leftover character too few
DiffTail_ShortDelete ==
  /\ dpc = "loop"
  /\ loop_i = Min(Len(old_text), Len(new_text))
  /\ LET old_len == Len(old_text)
         new_len == Len(new_text)
         overlap == Min(old_len, new_len)
     IN doc' = IF new_len > old_len
               THEN InsertString(doc, start_offset + overlap,
                                 SubSeq(new_text, old_len + 1, new_len))
               ELSE IF old_len > new_len
               THEN DeleteAt(doc, start_offset + new_len,
                             old_len - new_len - 1)
               ELSE doc
  /\ dpc' = "done"
  /\ UNCHANGED <<doc0, old_text, new_text, start_offset, loop_i, main_cursor,
                 diff_call>>
  /\ UNCHANGED orchVars
  /\ UNCHANGED toolVars

\* after the loop: extra new characters, or leftover old characters
DiffTail ==
  /\ dpc = "loop"
  /\ loop_i = Min(Len(old_text), Len(new_text))
  /\ LET old_len == Len(old_text)
         new_len == Len(new_text)
         overlap == Min(old_len, new_len)
     IN doc' = IF new_len > old_len
               THEN InsertString(doc, start_offset + overlap,
                                 SubSeq(new_text, old_len + 1, new_len))
               ELSE IF old_len > new_len
               THEN DeleteAt(doc, start_offset + new_len, old_len - new_len)
               ELSE doc
  /\ dpc' = "done"
  /\ UNCHANGED <<doc0, old_text, new_text, start_offset, loop_i, main_cursor,
                 diff_call>>
  /\ UNCHANGED orchVars
  /\ UNCHANGED toolVars

NextDiff == DiffStart \/ DiffStep \/ DiffTail

SpecDiff == InitDiff /\ [][NextDiff]_vars

\* ------------------------------- framework/tool_registry.py: one execute
\* argument names a caller may supply: a parameter of WebResearchTool and
\* the image_model key the sidebar adds to every call
ArgNames == {"query", "image_model"}

\* the doc_types a tool may declare
ToolDocTypes == {{}, {"writer"}}

\* the services a registry is built with: none (as the Calc registry is) or
\* the event bus and the document service
RegistryServices == {{}, {"events", "document"}}

\* the tools a registry may hold under the name that is called
RegistryTools ==
  {UnknownTool} \cup
  {ToolDesc(dt, props, m) :
     dt \in ToolDocTypes, props \in SUBSET ArgNames, m \in BOOLEAN}

\* ToolContext.doc_type
ContextDocTypes == {"writer", "calc", NoDocType}

\* a caller runs registry.execute(tool_name, ctx, **kwargs) on a document of
\* some length whose cache is empty or holds that length; the handler may
\* read the length through the document service before it does its work
ExecuteCalls ==
  {[op |-> "call", method |-> "execute", tool |-> tool,
    doc_type |-> doc_type, kwargs |-> kwargs, h |-> h,
    batch_mode |-> batch_mode, services |-> services,
    length |-> length, cache |-> cache, reads |-> reads] :
     tool \in RegistryTools, doc_type \in ContextDocTypes,
     kwargs \in SUBSET ArgNames, h \in HandlerOutcomes,
     batch_mode \in BOOLEAN, services \in RegistryServices,
     length \in 0..MaxDocLen, cache \in {NoLength} \cup (0..MaxDocLen),
     reads \in BOOLEAN}

\* the cache belongs to the document service and is filled from the document
CachedCall(c) ==
  /\ c.cache \in {NoLength, c.length}
  /\ "document" \notin c.services => (c.cache = NoLength /\ ~c.reads)

ExecuteTool ==
  /\ reg.op = "call" /\ reg.method = "execute"
  /\ \E did \in {execute(reg.tool, reg.doc_type, reg.kwargs, reg.h,
                         reg.batch_mode, reg.services)} :
       reg' = [op |-> "execute", tool |-> reg.tool, doc_type |-> reg.doc_type,
               kwargs |-> reg.kwargs, h |-> reg.h,
               batch_mode |-> reg.batch_mode, services |-> reg.services,
               length |-> reg.length, cache |-> reg.cache,
               reads |-> reg.reads,
               did |-> did,
               length_after |-> IF did.called
                                THEN LengthAfter(reg.tool, reg.h, reg.length)
                                ELSE reg.length,
               cache_after |-> CacheAfter(did, reg.cache, reg.reads,
                                          reg.length)]
  /\ UNCHANGED <<call_names, doc_access, wr, ses>>
  /\ UNCHANGED orchVars
  /\ UNCHANGED diffVars

\* the tiers a tool declares, and the tier argument left at its default None
Tiers == {"core", "extended"}
NoTier == "none"

\* a tool as the listings see it: doc_types None (any_doc) or a list
ListedTool(name, any_doc, doc_types, tier) ==
  [name |-> name, any_doc |-> any_doc, doc_types |-> doc_types, tier |-> tier]

\* self._tools in registration order: two tools, each declaring no
\* doc_types (None), an empty list, or one document type
Registries ==
  LET decl == {<<TRUE, {}>>, <<FALSE, {}>>, <<FALSE, {"writer"}>>,
               <<FALSE, {"calc"}>>}
  IN {<<ListedTool("t1", d1[1], d1[2], r1), ListedTool("t2", d2[1], d2[2], r2)>> :
        d1 \in decl, d2 \in decl, r1 \in Tiers, r2 \in Tiers}

\* tools_for_doc_type: "if tool.doc_types is None or doc_type in tool.doc_types"
tools_for_doc_type(tools, doc_type) ==
  SelectSeq(tools, LAMBDA t : t.any_doc \/ doc_type \in t.doc_types)

\* get_openai_schemas: "if tier: tools = (t for t in tools if t.tier == tier)";
\* a schema is named by its tool
get_openai_schemas(tools, doc_type, tier) ==
  LET compatible == tools_for_doc_type(tools, doc_type)
      kept == IF tier # NoTier
              THEN SelectSeq(compatible, LAMBDA t : t.tier = tier)
              ELSE compatible
  IN [i \in 1..Len(kept) |-> kept[i].name]

\* get_mcp_schemas: every compatible tool, whatever its tier
get_mcp_schemas(tools, doc_type) ==
  LET compatible == tools_for_doc_type(tools, doc_type)
  IN [i \in 1..Len(compatible) |-> compatible[i].name]

\* a caller asks the registry for the schemas to offer
SchemaCalls ==
  {[op |-> "call", method |-> m, tools |-> tools, doc_type |-> doc_type,
    tier |-> tier] :
     m \in {"get_openai_schemas", "get_mcp_schemas"}, tools \in Registries,
     doc_type \in ContextDocTypes, tier \in Tiers \cup {NoTier}}

GetSchemas ==
  /\ reg.op = "call" /\ reg.method \in {"get_openai_schemas", "get_mcp_schemas"}
  /\ reg' = [op |-> reg.method, tools |-> reg.tools,
             doc_type |-> reg.doc_type, tier |-> reg.tier,
             listed |-> IF reg.method = "get_openai_schemas"
                        THEN get_openai_schemas(reg.tools, reg.doc_type,
                                                reg.tier)
                        ELSE get_mcp_schemas(reg.tools, reg.doc_type)]
  /\ UNCHANGED <<call_names, doc_access, wr, ses>>
  /\ UNCHANGED orchVars
  /\ UNCHANGED diffVars

\* the call about to be made
InitRegistry ==
  /\ OrchInit /\ DiffIdle
  /\ call_names = {} /\ doc_access = {} /\ wr = NoCall /\ ses = NoCall
  /\ \/ reg \in {c \in ExecuteCalls : CachedCall(c)}
     \/ reg \in {c \in SchemaCalls :
                   c.method = "get_mcp_schemas" => c.tier = NoTier}

NextRegistry == ExecuteTool \/ GetSchemas

SpecRegistry == InitRegistry /\ [][NextRegistry]_vars

\* ------------------- writer/format_support.py: search, write and find
LF == "\n"
CR == "\r"
TAB == "\t"

\* the grave accent character
BQ == "grave"

\* what findFirst and findNext return when nothing matches
NotFound == 0 - 1

\* the safety valve of the all_matches loop
SafetyValve == 100

UpperCase ==
  [A |-> "a", B |-> "b", C |-> "c", D |-> "d", E |-> "e", F |-> "f",
   G |-> "g", H |-> "h", I |-> "i", J |-> "j", K |-> "k", L |-> "l",
   M |-> "m", N |-> "n", O |-> "o", P |-> "p", Q |-> "q", R |-> "r",
   S |-> "s", T |-> "t", U |-> "u", V |-> "v", W |-> "w", X |-> "x",
   Y |-> "y", Z |-> "z"]

\* str.lower(), one character
Lower(c) == IF c \in DOMAIN UpperCase THEN UpperCase[c] ELSE c

\* str.lower()
str_lower(s) == [i \in 1..Len(s) |-> Lower(s[i])]

\* "s in t" of Python strings
Contains(t, s) ==
  \E i \in 0..(Len(t) - Len(s)) : SubSeq(t, i + 1, i + Len(s)) = s

RECURSIVE str_replace(_, _, _)
\* t.replace(old, new) for a non-empty old: leftmost, non-overlapping
str_replace(t, old, new) ==
  IF Len(t) < Len(old) THEN t
  ELSE IF SubSeq(t, 1, Len(old)) = old
  THEN new \o str_replace(SubSeq(t, Len(old) + 1, Len(t)), old, new)
  ELSE <<Head(t)>> \o str_replace(Tail(t), old, new)

RECURSIVE str_rstrip(_)
\* s.rstrip("\n\r")
str_rstrip(s) ==
  IF s # <<>> /\ s[Len(s)] \in {LF, CR}
  THEN str_rstrip(SubSeq(s, 1, Len(s) - 1))
  ELSE s

RECURSIVE AddAll(_, _)
\* add(s) for each s of list, in order: a string already seen is skipped
AddAll(out, list) ==
  IF list = <<>> THEN out
  ELSE AddAll(IF \E k \in 1..Len(out) : out[k] = Head(list)
              THEN out ELSE Append(out, Head(list)),
              Tail(list))

\* normalized = source_string.replace("\r\n\r\n", "\n").replace("\r\n", "\n")
\*                           .replace("\n\n", "\n").replace("\r", "\n")
normalized(source_string) ==
  str_replace(
    str_replace(
      str_replace(
        str_replace(source_string, <<CR, LF, CR, LF>>, <<LF>>),
        <<CR, LF>>, <<LF>>),
      <<LF, LF>>, <<LF>>),
    <<CR>>, <<LF>>)

literal_search_candidates(source_string) ==
  LET n == normalized(source_string)
  IN AddAll(<<>>,
            <<source_string,
              n,
              str_replace(n, <<LF>>, <<LF, LF>>),
              str_replace(n, <<LF>>, <<CR, LF>>),
              str_replace(n, <<LF>>, <<CR, LF, CR, LF>>),
              str_replace(n, <<LF>>, <<CR>>),
              str_replace(n, <<LF>>, <<LF, CR>>),
              n \o <<LF>>,
              n \o <<LF, LF>>>>)

RECURSIVE Hashes(_)
\* the number of "#" a string starts with
Hashes(s) == IF s # <<>> /\ Head(s) = "#" THEN 1 + Hashes(Tail(s)) ELSE 0

\* the text the host's import filter makes of a string when DOCUMENT_FORMAT
\* is "markdown": a heading marker at its start and the emphasis markers are
\* markup, the rest is text
MarkupToPlain(s) ==
  LET h == Hashes(s)
      body == IF h >= 1 /\ Len(s) > h /\ s[h + 1] = " "
              THEN SubSeq(s, h + 2, Len(s)) ELSE s
  IN str_replace(body, <<"*", "*">>, <<>>)

\* host_ok: the host loads the scratch document; without it there is no
\* plain form
markdown_to_plain_via_document(markdown_string, host_ok) ==
  IF ~host_ok THEN [none |-> TRUE, str |-> <<>>]
  ELSE [none |-> FALSE, str |-> str_rstrip(MarkupToPlain(markdown_string))]

\* the candidates of the search string alone, without its plain form
search_candidates_with_plain_RawOnly(search_string, host_ok) ==
  literal_search_candidates(search_string)

search_candidates_with_plain(search_string, host_ok) ==
  LET candidates == literal_search_candidates(search_string)
      plain == markdown_to_plain_via_document(search_string, host_ok)
  IN IF ~plain.none /\ plain.str # <<>>
     THEN AddAll(candidates, literal_search_candidates(plain.str))
     ELSE candidates

_MARKUP_PATTERNS ==
  <<<<"*", "*">>, <<"_", "_">>, <<BQ, BQ>>, <<"#", " ">>,
    <<"#", "#", " ">>, <<"#", "#", "#", " ">>, <<"|", " ">>,
    <<"|", "-", "-", "-">>, <<"-", " ", "[", " ", "]">>, <<"<", "b", ">">>,
    <<"<", "i", ">">>, <<"<", "p", ">">>, <<"<", "h", "1">>,
    <<"<", "h", "2">>, <<"<", "h", "3">>, <<"<", "t", "a", "b", "l", "e">>,
    <<"<", "t", "r">>, <<"<", "t", "d">>, <<"<", "u", "l", ">">>,
    <<"<", "o", "l", ">">>, <<"<", "l", "i", ">">>, <<"<", "d", "i", "v">>,
    <<"<", "s", "p", "a", "n">>, <<"<", "b", "r">>, <<"<", "i", "m", "g">>,
    <<"<", "s", "t", "r", "o", "n", "g">>, <<"<", "e", "m", ">">>,
    <<"<", "/">>, <<"<", "h", "t", "m", "l">>, <<"<", "b", "o", "d", "y">>,
    <<"<", "!", "D", "O", "C", "T", "Y", "P", "E">>>>

\* pat.lower() for each pattern
PatternsLower ==
  [k \in 1..Len(_MARKUP_PATTERNS) |-> str_lower(_MARKUP_PATTERNS[k])]

content_has_markup(content) ==
  LET content_lower == str_lower(content)
  IN /\ content # <<>>
     /\ \E k \in 1..Len(PatternsLower) :
          Contains(content_lower, PatternsLower[k])

\* does the search string s match the text t at offset i
MatchAt(t, s, i, case_sensitive) ==
  LET w == SubSeq(t, i + 1, i + Len(s))
  IN IF case_sensitive THEN w = s ELSE str_lower(w) = str_lower(s)

RECURSIVE findNext(_, _, _, _)
\* model.findNext(cursor, sd) with the cursor at offset from and a literal
\* search descriptor: the offset of the first match at or after from
findNext(t, s, from, case_sensitive) ==
  IF s = <<>> \/ from + Len(s) > Len(t) THEN NotFound
  ELSE IF MatchAt(t, s, from, case_sensitive) THEN from
  ELSE findNext(t, s, from + 1, case_sensitive)

\* model.findFirst(sd)
findFirst(t, s, case_sensitive) == findNext(t, s, 0, case_sensitive)

\* the range a search found, as find_text reports it
Range(t, found, n) ==
  [start |-> found, end |-> found + n, text |-> SubSeq(t, found + 1, found + n)]

RECURSIVE DiffLoop(_, _, _, _, _)
\* "for i in range(overlap)" of _replace_text_preserving_format, from i on
DiffLoop(d, s, old, new, i) ==
  IF i >= Min(Len(old), Len(new)) THEN d
  ELSE DiffLoop(IF new[i + 1] = old[i + 1] THEN d
                ELSE DeleteAt(InsertString(d, s + i + 1, <<new[i + 1]>>),
                              s + i, 1),
                s, old, new, i + 1)

\* _replace_text_preserving_format on the range [s, e) as one call
replace_text_preserving_format(d, s, e, new) ==
  LET old == Text(SubSeq(d, s + 1, e))
      old_len == Len(old)
      new_len == Len(new)
      d1 == DiffLoop(d, s, old, new, 0)
  IN IF old_len = 0 /\ new_len = 0 THEN d
     ELSE IF old_len = 0 THEN InsertString(d, s, new)
     ELSE IF new_len > old_len
     THEN InsertString(d1, s + old_len, SubSeq(new, old_len + 1, new_len))
     ELSE IF old_len > new_len
     THEN DeleteAt(d1, s + new_len, old_len - new_len)
     ELSE d1

\* cursor.insertDocumentFromURL(file_url, filter_props) at offset pos: the
\* imported text comes with the formatting the import gives it
insertDocumentFromURL(d, pos, content) ==
  LET str == MarkupToPlain(content)
  IN SubSeq(d, 1, pos) \o [i \in 1..Len(str) |-> Char(str[i], DefaultStyle)]
     \o SubSeq(d, pos + 1, Len(d))

\* get_text_cursor_at_range(model, start, end) of plugin/modules/core/document.py
get_text_cursor_at_range(d, start, end) == [start |-> start, end |-> end]

\* what a search-and-replace did: the document, the number of replacements,
\* the candidate that matched, the texts it replaced, and whether the
\* all_matches loop goes on
Replaced(d, count, cand, texts, more) ==
  [doc |-> d, count |-> count, cand |-> cand, texts |-> texts, more |-> more]

\* the all_matches loop goes on while the candidate is found, all_matches or not
MoreMatches_IgnoreFlag(all_matches, again, count) ==
  again # NotFound /\ ~(count > SafetyValve)

\* after a replacement: "if not all_matches: break", "found = findFirst(sd)",
\* "if found and count > 100: break"
MoreMatches(all_matches, again, count) ==
  all_matches /\ again # NotFound /\ ~(count > SafetyValve)

\* one turn of "while found:" of _apply_preserving_format_at_search
ReplaceMatch(d, cand, new, all_matches, cs, found, count, texts) ==
  LET d1 == replace_text_preserving_format(d, found, found + Len(cand), new)
      again == findFirst(Text(d1), cand, cs)
  IN Replaced(d1, count + 1, cand,
              texts \cup {SubSeq(Text(d), found + 1, found + Len(cand))},
              MoreMatches(all_matches, again, count + 1))

RECURSIVE PreserveCandidates(_, _, _, _, _, _)
\* "for idx, candidate in enumerate(search_candidates)", from candidate k on,
\* up to the end of the first replacement
PreserveCandidates(d, new, cands, all_matches, cs, k) ==
  IF k > Len(cands) THEN Replaced(d, 0, <<>>, {}, FALSE)
  ELSE LET found == findFirst(Text(d), cands[k], cs)
       IN IF found = NotFound
          THEN PreserveCandidates(d, new, cands, all_matches, cs, k + 1)
          ELSE ReplaceMatch(d, cands[k], new, all_matches, cs, found, 0, {})

apply_preserving_format_at_search(d, new, search_string, host_ok,
                                  all_matches, cs) ==
  PreserveCandidates(d, new,
                     search_candidates_with_plain(search_string, host_ok),
                     all_matches, cs, 1)

RECURSIVE ImportMatches(_, _, _, _, _, _, _, _)
\* "while found:" of _apply_markdown_at_search
ImportMatches(d, cand, content, all_matches, cs, found, count, texts) ==
  LET d1 == insertDocumentFromURL(DeleteAt(d, found, Len(cand)), found, content)
      tx == texts \cup {SubSeq(Text(d), found + 1, found + Len(cand))}
      cursor_end == found + Len(d1) - (Len(d) - Len(cand))
      again == findNext(Text(d1), cand, cursor_end, cs)
  IN IF ~all_matches \/ again = NotFound
     THEN Replaced(d1, count + 1, cand, tx, FALSE)
     ELSE ImportMatches(d1, cand, content, all_matches, cs, again,
                        count + 1, tx)

RECURSIVE ImportCandidates(_, _, _, _, _, _)
\* "for idx, search_candidate in enumerate(search_candidates)"
ImportCandidates(d, content, cands, all_matches, cs, k) ==
  IF k > Len(cands) THEN Replaced(d, 0, <<>>, {}, FALSE)
  ELSE LET found == findFirst(Text(d), cands[k], cs)
       IN IF found = NotFound
          THEN ImportCandidates(d, content, cands, all_matches, cs, k + 1)
          ELSE ImportMatches(d, cands[k], content, all_matches, cs, found,
                             0, {})

apply_markdown_at_search(d, markdown_string, search_string, host_ok,
                         all_matches, cs) ==
  ImportCandidates(d, markdown_string,
                   search_candidates_with_plain(search_string, host_ok),
                   all_matches, cs, 1)

\* cursor.gotoStart; gotoEnd(True); setString(""); insertDocumentFromURL
insert_markdown_full(d, markdown_string) ==
  insertDocumentFromURL(<<>>, 0, markdown_string)

apply_markdown_at_range(d, markdown_string, start, end) ==
  LET cursor == get_text_cursor_at_range(d, start, end)
  IN insertDocumentFromURL(DeleteAt(d, cursor.start, cursor.end - cursor.start),
                           cursor.start, markdown_string)

\* the insert drops the whole document first
insert_markdown_at_position_Replace(d, markdown_string, position, sel) ==
  insertDocumentFromURL(<<>>, 0, markdown_string)

\* sel is what the controller gives for position 'selection': the first
\* selected range [start, end), collapsed at the view cursor when nothing is
\* selected, or an exception (~sel.ok), after which the cursor goes to the end
insert_markdown_at_position(d, markdown_string, position, sel) ==
  IF position = "beginning" THEN insertDocumentFromURL(d, 0, markdown_string)
  ELSE IF position = "selection" /\ sel.ok
  THEN insertDocumentFromURL(DeleteAt(d, sel.start, sel.end - sel.start),
                             sel.start, markdown_string)
  ELSE insertDocumentFromURL(d, Len(d), markdown_string)

\* args.get("limit") when the call names no limit (None)
NoLimit == 0 - 1

RECURSIVE search(_, _, _, _, _, _)
\* _search(s) of _find_text_ranges, from offset from on; "if limit and ..."
\* takes None and 0 alike
search(t, s, from, limit, cs, matches) ==
  LET found == findNext(t, s, from, cs)
      m == Append(matches, Range(t, found, Len(s)))
  IN IF found = NotFound THEN matches
     ELSE IF limit # NoLimit /\ limit # 0 /\ Len(m) >= limit THEN m
     ELSE search(t, s, found + Len(s), limit, cs, m)

RECURSIVE TryCandidates_Merge(_, _, _, _, _, _)
\* TryCandidates that collects the matches of every candidate
TryCandidates_Merge(t, cands, start, limit, cs, k) ==
  IF k > Len(cands) THEN <<>>
  ELSE search(t, cands[k], start, limit, cs, <<>>)
       \o TryCandidates_Merge(t, cands, start, limit, cs, k + 1)

RECURSIVE TryCandidates(_, _, _, _, _, _)
\* "for idx, needle in enumerate(candidates)" of _find_text_ranges
TryCandidates(t, cands, start, limit, cs, k) ==
  IF k > Len(cands) THEN <<>>
  ELSE LET matches == search(t, cands[k], start, limit, cs, <<>>)
       IN IF matches # <<>> THEN matches
          ELSE TryCandidates(t, cands, start, limit, cs, k + 1)

find_text_ranges(d, search_string, host_ok, start, limit, cs) ==
  LET t == Text(d)
      matches == search(t, search_string, start, limit, cs, <<>>)
  IN IF start >= Len(t) THEN <<>>
     ELSE IF matches # <<>> THEN matches
     ELSE TryCandidates(t, search_candidates_with_plain(search_string, host_ok),
                        start, limit, cs, 1)

\* plain content goes through the format-preserving replace whatever it holds
use_preserve_Always(content) == TRUE

\* "use_preserve = isinstance(content, str) and not _content_has_markup(content)"
use_preserve(content) == ~content_has_markup(content)

\* the result of a search that replaced nothing is an error
search_result_ErrorOnZero(count, preserve) ==
  [status |-> IF count = 0 THEN "error" ELSE "ok",
   text |-> "Replaced %d occurrence(s) with new content.",
   count |-> count,
   preserved |-> preserve /\ count > 0,
   hint |-> count = 0]

\* the JSON result of target "search": the message with its count, the
\* "(formatting preserved)" suffix and the hint to use find_text and a range
search_result(count, preserve) ==
  [status |-> "ok",
   text |-> "Replaced %d occurrence(s) with new content.",
   count |-> count,
   preserved |-> preserve /\ count > 0,
   hint |-> count = 0]

\* "content.replace("\\n", "\n").replace("\\t", "\t")"
NormalizeEscapes(content) ==
  str_replace(str_replace(content, <<"\\", "n">>, <<LF>>),
              <<"\\", "t">>, <<TAB>>)

\* what a call of tool_apply_document_content did so far
Written(d, result, path, r) ==
  [doc |-> d, result |-> result, path |-> path, count |-> r.count,
   cand |-> r.cand, texts |-> r.texts, more |-> r.more]

tool_apply_document_content(d, args, host_ok, sel) ==
  LET content == NormalizeEscapes(args.content)
      preserve == use_preserve(content)
      path == IF preserve THEN "preserve" ELSE "import"
      ok(text) == [status |-> "ok", text |-> text, preserved |-> preserve]
      one == Replaced(d, 1, <<>>, {}, FALSE)
  IN CASE args.target = "search" ->
            LET r == IF preserve
                     THEN apply_preserving_format_at_search(
                            d, content, args.search, host_ok,
                            args.all_matches, args.case_sensitive)
                     ELSE apply_markdown_at_search(
                            d, content, args.search, host_ok,
                            args.all_matches, args.case_sensitive)
            IN Written(r.doc,
                       IF r.more THEN [status |-> "running"]
                       ELSE search_result(r.count, preserve),
                       path, r)
       [] args.target = "full" ->
            Written(IF preserve
                    THEN LET rng == get_text_cursor_at_range(d, 0, Len(d))
                         IN replace_text_preserving_format(d, rng.start,
                                                           rng.end, content)
                    ELSE insert_markdown_full(d, content),
                    ok("Replaced entire document."), path, one)
       [] args.target = "range" ->
            Written(IF preserve
                    THEN LET rng == get_text_cursor_at_range(d, args.start,
                                                             args.end)
                         IN replace_text_preserving_format(d, rng.start,
                                                           rng.end, content)
                    ELSE apply_markdown_at_range(d, content, args.start,
                                                 args.end),
                    ok("Replaced range [%s, %s)."), path, one)
       [] OTHER ->
            Written(insert_markdown_at_position(d, content, args.target, sel),
                    [status |-> "ok", text |-> "Inserted content at %s.",
                     preserved |-> FALSE],
                    "import", one)

tool_find_text(d, args, host_ok) ==
  [status |-> "ok",
   ranges |-> find_text_ranges(d, args.search, host_ok, args.start,
                               args.limit, args.case_sensitive)]

\* ---- the calls that are checked
PlainTexts(n) == UNION {[1..k -> Chars] : k \in 0..n}

\* Writer documents: plain text, text with a paragraph break, text with an
\* upper-case letter; every character carries its own style run
WriterDocs ==
  {[i \in 1..Len(t) |-> Char(t[i], i)] :
     t \in PlainTexts(MaxDocLen)
           \cup {<<"a", LF>>, <<"a", LF, "b">>, <<"a", "a", LF>>,
                 <<"A">>, <<"A", "b">>, <<"a", "A">>}}

\* search strings: plain text, the same as a heading in markup form, and
\* text with a line break in several dialects
SearchStrings ==
  LET plain == PlainTexts(MaxSearchLen) \ {<<>>}
  IN plain
     \cup {<<"#", "#", " ">> \o p : p \in plain}
     \cup {<<"#", " ", "a">>, <<"a", LF>>}
     \cup {<<"a">> \o br \o <<"b">> :
             br \in {<<LF>>, <<CR>>, <<CR, LF>>, <<LF, LF>>, <<CR, CR>>,
                     <<CR, LF, CR, LF>>}}

\* content: plain text, text that looks like markup but is not, markup, and
\* text with an escaped line break
Contents ==
  PlainTexts(MaxContentLen)
  \cup {<<"#", "a">>, <<"a", "\\", "n", "b">>}
  \cup {<<"#", " ", "a">>, <<"<", "B", ">">>, <<"*", "*", "a", "*", "*">>}

\* the host loads the scratch document or fails to; a search string that is
\* its own plain form gives the same candidates either way
HostOutcomes(search_string) ==
  IF markdown_to_plain_via_document(search_string, TRUE).str = search_string
  THEN {TRUE} ELSE BOOLEAN

NoArgs ==
  [target |-> "", content |-> <<>>, search |-> <<>>, all_matches |-> FALSE,
   case_sensitive |-> TRUE, start |-> 0, end |-> 0, limit |-> NoLimit]

\* the calls of apply_document_content on document d; a search that replaces
\* every match is called with a deletion, a text of the same and of greater
\* length, and markup
WriteCalls(d) ==
  {[NoArgs EXCEPT !.target = "search", !.content = c, !.search = s,
                  !.case_sensitive = cs] :
     c \in Contents, s \in SearchStrings, cs \in BOOLEAN}
  \cup {[NoArgs EXCEPT !.target = "search", !.content = c, !.search = s,
                       !.all_matches = TRUE] :
          c \in {<<>>, <<"b">>, <<"a", "a">>, <<"#", " ", "a">>},
          s \in SearchStrings}
  \cup {[NoArgs EXCEPT !.target = tg, !.content = c] :
          tg \in {"full", "beginning", "end", "selection"}, c \in Contents}
  \cup {[NoArgs EXCEPT !.target = "range", !.content = c,
                       !.start = p[1], !.end = p[2]] :
          c \in Contents,
          p \in {x \in (0..Len(d)) \X (0..Len(d)) : x[1] <= x[2]}}

FindCalls(d) ==
  {[NoArgs EXCEPT !.search = s, !.start = st, !.limit = lim,
                  !.case_sensitive = cs] :
     s \in SearchStrings, st \in 0..Len(d), lim \in {NoLimit, 0, 1},
     cs \in BOOLEAN}

\* what the controller of document d holds when the call arrives; it plays
\* a role for target 'selection' only
Selections(d, target) ==
  IF target # "selection" THEN {[ok |-> TRUE, start |-> 0, end |-> 0]}
  ELSE {[ok |-> FALSE, start |-> 0, end |-> 0]}
       \cup {[ok |-> TRUE, start |-> p[1], end |-> p[2]] :
               p \in {x \in (0..Len(d)) \X (0..Len(d)) : x[1] <= x[2]}}

InitWrite ==
  /\ OrchInit
  /\ call_names = {} /\ doc_access = {} /\ reg = NoCall /\ ses = NoCall
  /\ doc \in WriterDocs
  /\ doc0 = doc
  /\ old_text = <<>> /\ new_text = <<>>
  /\ start_offset = 0 /\ loop_i = 0 /\ main_cursor = 0 /\ dpc = "idle"
  /\ diff_call = NoDiffCall
  /\ \/ \E args \in WriteCalls(doc) :
          \E host_ok \in HostOutcomes(args.search),
             sel \in Selections(doc, args.target) :
            wr = [op |-> "call", tool |-> "apply_document_content",
                  args |-> args, host_ok |-> host_ok, sel |-> sel]
     \/ \E args \in FindCalls(doc) :
          \E host_ok \in HostOutcomes(args.search) :
            wr = [op |-> "call", tool |-> "find_text",
                  args |-> args, host_ok |-> host_ok]

\* the Writer tool apply_document_content runs on the document, up to the
\* end of the first replacement of an all_matches search
ApplyDocumentContent ==
  /\ wr.op = "call" /\ wr.tool = "apply_document_content"
  /\ \E w \in {tool_apply_document_content(doc, wr.args, wr.host_ok,
                                            wr.sel)} :
        /\ doc' = w.doc
        /\ wr' = [op |-> IF w.more THEN "replacing" ELSE "done",
                  tool |-> wr.tool, args |-> wr.args,
                  host_ok |-> wr.host_ok, sel |-> wr.sel,
                  result |-> w.result,
                  path |-> w.path, count |-> w.count, cand |-> w.cand,
                  texts |-> w.texts]
  /\ UNCHANGED <<doc0, old_text, new_text, start_offset, loop_i, main_cursor,
                 dpc, diff_call>>
  /\ UNCHANGED <<call_names, doc_access, reg, ses>>
  /\ UNCHANGED orchVars

\* one more turn of the all_matches loop of the format-preserving search
ReplaceNextMatch ==
  /\ wr.op = "replacing"
  /\ \E r \in {ReplaceMatch(doc, wr.cand, NormalizeEscapes(wr.args.content),
                              TRUE, wr.args.case_sensitive,
                              findFirst(Text(doc), wr.cand,
                                        wr.args.case_sensitive),
                              wr.count, wr.texts)} :
        /\ doc' = r.doc
        /\ wr' = [wr EXCEPT !.op = IF r.more THEN "replacing" ELSE "done",
                            !.count = r.count,
                            !.texts = r.texts,
                            !.result = IF r.more THEN [status |-> "running"]
                                       ELSE search_result(r.count, TRUE)]
  /\ UNCHANGED <<doc0, old_text, new_text, start_offset, loop_i, main_cursor,
                 dpc, diff_call>>
  /\ UNCHANGED <<call_names, doc_access, reg, ses>>
  /\ UNCHANGED orchVars

\* the Writer tool find_text runs on the document
FindText ==
  /\ wr.op = "call" /\ wr.tool = "find_text"
  /\ wr' = [op |-> "done", tool |-> wr.tool, args |-> wr.args,
            host_ok |-> wr.host_ok,
            result |-> tool_find_text(doc, wr.args, wr.host_ok)]
  /\ UNCHANGED diffVars
  /\ UNCHANGED <<call_names, doc_access, reg, ses>>
  /\ UNCHANGED orchVars

NextWrite == ApplyDocumentContent \/ ReplaceNextMatch \/ FindText

SpecWrite == InitWrite /\ [][NextWrite]_vars

\* ---------------------------------------- ChatSession as its callers use it
\* ChatSession(system_prompt): with a prompt or without one
InitSession ==
  /\ messages \in {<<>>, SessionInit}
  /\ OrchIdle /\ DiffIdle /\ ToolIdle

\* a method of the session ran and left the messages ms
SessionStep(method, ms) ==
  /\ messages' = ms
  /\ ses' = [op |-> method, found |-> messages]
  /\ UNCHANGED <<call_names, doc_access, wr, reg>>
  /\ UNCHANGED <<deltas, stop_requested, terminal_status, send_busy, mode, q,
                 round_num, pending_tools, max_tool_rounds, thinking_open,
                 collected, llm, async_running, next_id, turns, response,
                 events, backend_failed>>
  /\ UNCHANGED diffVars

SessionAddUser ==
  /\ Len(messages) < MaxMessages
  /\ SessionStep("add_user_message", add_user_message(messages))

SessionAddAssistant ==
  /\ Len(messages) < MaxMessages
  /\ \E content \in {"text", "none"}, tool_calls \in {<<>>, <<1>>} :
       SessionStep("add_assistant_message",
                   add_assistant_message(messages, content, tool_calls))

SessionAddToolResult ==
  /\ Len(messages) < MaxMessages
  /\ SessionStep("add_tool_result", add_tool_result(messages, 1, "ok"))

SessionUpdateContext ==
  /\ Len(messages) < MaxMessages
  /\ SessionStep("update_document_context", update_document_context(messages))

SessionClear == SessionStep("clear", clear(messages))

NextSession ==
  \/ SessionAddUser \/ SessionAddAssistant \/ SessionAddToolResult
  \/ SessionUpdateContext \/ SessionClear

SpecSession == InitSession /\ [][NextSession]_vars

\* ------------------------- chatbot_api/handler.py: POST /api/chat as a loop
\* the handler's session is new and no request is being served; the model
\* may call a Writer tool or a name it made up
InitHttp ==
  /\ OrchInit /\ DiffIdle
  /\ call_names = {"get_document_content", "no_such_tool"}
  /\ doc_access = {} /\ wr = NoCall /\ reg = NoCall /\ ses = NoCall

\* handle_chat up to the call of _stream_response: a body without a message
\* and a missing provider are answered with 400 and 503; otherwise the
\* document context is injected when there is a document, the user message
\* is added and the event stream is opened. maybe_compress is taken to leave
\* the conversation as it is
HandleChat ==
  /\ mode = "idle"
  /\ turns < MaxTurns
  /\ turns' = turns + 1
  /\ \E path \in {"bad_request", "no_provider", "stream"},
        has_doc \in BOOLEAN, mr \in MinToolRounds..MaxRoundsBound :
       IF path = "stream"
       THEN /\ messages' = add_user_message(
                              IF has_doc THEN update_document_context(messages)
                              ELSE messages)
            /\ mode' = "http_stream"
            /\ round_num' = 0
            /\ max_tool_rounds' = mr
            /\ events' = <<>>
            /\ response' = {}
       ELSE /\ response' = {path}
            /\ UNCHANGED <<messages, mode, round_num, max_tool_rounds, events>>
  /\ UNCHANGED <<stop_requested, terminal_status, send_busy, q, pending_tools,
                 thinking_open, collected, llm, async_running, next_id,
                 deltas, backend_failed>>
  /\ UNCHANGED diffVars
  /\ UNCHANGED toolVars

\* one pass of "for _round in range(max_rounds)" up to the tool calls:
\* provider.stream ends with or without tool calls, or raises (handle_chat
\* then sends an error event)
HttpStream ==
  /\ mode = "http_stream"
  /\ \/ \E names \in NameSeqs, content \in {"text", "none"} :
          /\ \A i \in 1..Len(names) : names[i] \in call_names
          /\ next_id + Len(names) <= MaxToolCalls + 1
          /\ next_id' = next_id + Len(names)
          /\ messages' = add_assistant_message(
                             messages, content, Ids(Calls(names, next_id)))
          /\ IF names = <<>>
             THEN /\ events' = Append(events, Ev("sse", "done", NoId))
                  /\ mode' = "idle"
                  /\ UNCHANGED pending_tools
             ELSE /\ pending_tools' = Calls(names, next_id)
                  /\ mode' = "http_tools"
                  /\ UNCHANGED events
     \/ /\ events' = Append(events, Ev("sse", "error", NoId))
        /\ mode' = "idle"
        /\ UNCHANGED <<messages, pending_tools, next_id>>
  /\ UNCHANGED <<stop_requested, terminal_status, send_busy, q, round_num,
                 max_tool_rounds, thinking_open, collected, llm,
                 async_running, deltas, turns, response, backend_failed>>
  /\ UNCHANGED diffVars
  /\ UNCHANGED toolVars

\* one pass of "for tc in tool_calls": the call is announced, run through the
\* adapter and answered; a raising adapter ends the request with an error
\* event. After the last call the round loop goes on, and when range(max_rounds)
\* is used up the handler sends done
HttpToolCall ==
  /\ mode = "http_tools"
  /\ pending_tools # <<>>
  /\ \E out \in {"ok", "error", "raise"} :
       LET tc == Head(pending_tools)
           called == Append(events, Ev("sse", "tool_call", tc.id))
           answered == Append(called, Ev("sse", "tool_result", tc.id))
           last == Len(pending_tools) = 1
       IN IF out = "raise"
          THEN /\ events' = Append(called, Ev("sse", "error", NoId))
               /\ mode' = "idle"
               /\ UNCHANGED <<messages, pending_tools, round_num>>
          ELSE /\ messages' = add_tool_result(messages, tc.id, out)
               /\ pending_tools' = Tail(pending_tools)
               /\ round_num' = IF last THEN round_num + 1 ELSE round_num
               /\ IF last /\ round_num + 1 >= max_tool_rounds
                  THEN /\ events' = Append(answered, Ev("sse", "done", NoId))
                       /\ mode' = "idle"
                  ELSE /\ events' = answered
                       /\ mode' = IF last THEN "http_stream" ELSE "http_tools"
  /\ UNCHANGED <<stop_requested, terminal_status, send_busy, q,
                 max_tool_rounds, thinking_open, collected, llm,
                 async_running, next_id, deltas, turns, response,
                 backend_failed>>
  /\ UNCHANGED diffVars
  /\ UNCHANGED toolVars

NextHttp == HandleChat \/ HttpStream \/ HttpToolCall

SpecHttp == InitHttp /\ [][NextHttp]_vars

\* ------------------- writer/format_support.py: scratch documents, temp files
\* What a routine did with the resources it created, in order: "mkstemp" and
\* "unlink" for a temporary file, "open_doc" and "close_doc" for a hidden
\* scratch document. A host call named by fail raises; os.unlink and
\* close(True) themselves do what they are called for.

\* _with_temp_buffer(content): mkstemp, write the content when there is one,
\* yield to the body, unlink in finally
with_temp_buffer(content, fail, body) ==
  IF content # "none" /\ fail = "write"
  THEN [trace |-> <<"mkstemp", "unlink">>, raised |-> TRUE]
  ELSE [trace |-> <<"mkstemp">> \o body.trace \o <<"unlink">>,
        raised |-> body.raised]

\* _markdown_to_plain_via_document: the temp file is loaded as a hidden
\* document whose text is read; every exception ends in return None
markdown_to_plain_via_document_events(content, load, fail) ==
  LET body ==
        IF fail \in {"desktop", "load"} THEN [trace |-> <<>>, raised |-> TRUE]
        ELSE IF load = "none" THEN [trace |-> <<>>, raised |-> FALSE]
        ELSE IF load = "nogettext"
        THEN [trace |-> <<"open_doc", "close_doc">>, raised |-> FALSE]
        ELSE IF fail = "read_text"
        THEN [trace |-> <<"open_doc">>, raised |-> TRUE]
        ELSE [trace |-> <<"open_doc", "close_doc">>, raised |-> FALSE]
  IN IF content = "none" THEN [trace |-> <<>>, raised |-> FALSE]
     ELSE [trace |-> with_temp_buffer(content, fail, body).trace,
           raised |-> FALSE]

\* _range_to_markdown_via_temp_doc: a hidden document receives the range and
\* is stored to an empty temp file; finally closes the document
range_to_markdown_via_temp_doc(load, added_any, fail) ==
  LET closed == <<"close_doc">>
      store == [trace |-> <<>>, raised |-> fail \in {"store", "read_file"}]
      trace ==
        IF fail \in {"desktop", "load"} \/ load = "none" THEN <<>>
        ELSE IF load = "nogettext" THEN <<"open_doc", "close_doc">> \o closed
        ELSE IF fail = "copy" \/ ~added_any THEN <<"open_doc">> \o closed
        ELSE <<"open_doc">> \o with_temp_buffer("none", fail, store).trace
             \o closed
  IN [trace |-> trace, raised |-> FALSE]

\* _insert_markdown_at_position, _insert_markdown_full and
\* _apply_markdown_at_range: the content goes to a temp file that
\* insertDocumentFromURL reads; its exception is raised again
insert_markdown_events(content, fail) ==
  with_temp_buffer(content, fail, [trace |-> <<>>, raised |-> fail = "insert"])

InsertRoutines ==
  {"_insert_markdown_at_position", "_insert_markdown_full",
   "_apply_markdown_at_range"}

\* the calls of the routines that create a temp file or a scratch document
ScratchCalls ==
  {[tool |-> "_markdown_to_plain_via_document",
    args |-> [content |-> c, load |-> l, fail |-> f]] :
     c \in {"none", "str", "list"}, l \in {"none", "nogettext", "doc"},
     f \in {"never", "write", "desktop", "load", "read_text"}}
  \cup
  {[tool |-> "_range_to_markdown_via_temp_doc",
    args |-> [load |-> l, added_any |-> a, fail |-> f]] :
     l \in {"none", "nogettext", "doc"}, a \in BOOLEAN,
     f \in {"never", "desktop", "load", "copy", "store", "read_file"}}
  \cup
  {[tool |-> t, args |-> [content |-> c, fail |-> f]] :
     t \in InsertRoutines, c \in {"str", "list"},
     f \in {"never", "write", "insert"}}

InitScratch ==
  /\ OrchInit /\ DiffIdle
  /\ call_names = {} /\ doc_access = {} /\ reg = NoCall /\ ses = NoCall
  /\ \E c \in ScratchCalls : wr = [op |-> "call", tool |-> c.tool, args |-> c.args]

ScratchReturns(result) ==
  /\ wr' = [op |-> "done", tool |-> wr.tool, args |-> wr.args,
            result |-> result]
  /\ UNCHANGED <<call_names, doc_access, reg, ses>>
  /\ UNCHANGED orchVars /\ UNCHANGED diffVars

MarkdownToPlain ==
  /\ wr.op = "call" /\ wr.tool = "_markdown_to_plain_via_document"
  /\ ScratchReturns(markdown_to_plain_via_document_events(
                      wr.args.content, wr.args.load, wr.args.fail))

RangeToMarkdown ==
  /\ wr.op = "call" /\ wr.tool = "_range_to_markdown_via_temp_doc"
  /\ ScratchReturns(range_to_markdown_via_temp_doc(
                      wr.args.load, wr.args.added_any, wr.args.fail))

InsertMarkdown ==
  /\ wr.op = "call" /\ wr.tool \in InsertRoutines
  /\ ScratchReturns(insert_markdown_events(wr.args.content, wr.args.fail))

NextScratch == MarkdownToPlain \/ RangeToMarkdown \/ InsertMarkdown

SpecScratch == InitScratch /\ [][NextScratch]_vars

\* ------------------------------------------------- format-preserving laws
OldLen == Len(old_text)

\* the replace as one call gives the document the loop gives step by step
OneCallAgrees ==
  (dpc = "done" /\ Len(doc0) <= MaxDocLen) =>
    doc = replace_text_preserving_format(doc0, start_offset,
                                         start_offset + OldLen, new_text)
NewLen == Len(new_text)

\* C9: after a format-preserving replace of a span of length L >= 1 by text
\* of length N, every position i < min(L,N) whose character changed holds
\* new[i] with the style old[i] had, and every position in [L,N) holds
\* new[i] with the style old[L-1] had.
C9_StyleInheritance ==
  (dpc = "done" /\ OldLen >= 1) =>
    /\ \A i \in 1..Min(OldLen, NewLen) :
         new_text[i] # old_text[i] =>
           /\ doc[start_offset + i].ch = new_text[i]
           /\ doc[start_offset + i].st = doc0[start_offset + i].st
    /\ \A i \in (OldLen + 1)..NewLen :
         /\ doc[start_offset + i].ch = new_text[i]
         /\ doc[start_offset + i].st = doc0[start_offset + OldLen].st

\* "ABC" with three different styles replaced by five other characters
C9_Witness ==
  /\ dpc = "done"
  /\ OldLen = 3 /\ NewLen = 5
  /\ \A i \in 1..3 : new_text[i] # old_text[i]
  /\ Styles(doc) = <<1, 2, 3, 3, 3>>

\* C10: after a format-preserving replace of a span of length L by text of
\* length N the document is L characters shorter and N characters longer
\* than before, for every L >= 0 and N >= 0.
C10_LengthLaw ==
  dpc = "done" => Len(doc) = Len(doc0) - OldLen + NewLen

\* a replace that shortens a span which does not start the document
C10_Witness ==
  /\ dpc = "done"
  /\ OldLen > NewLen /\ NewLen >= 1
  /\ start_offset >= 1
  /\ loop_i = NewLen

\* C12: replacing a span with the text it already holds changes no character
\* and no character's style anywhere in the document.
C12_NoOpReplace ==
  (dpc = "done" /\ new_text = old_text) => doc = doc0

\* a span of three differently styled characters replaced by itself
C12_Witness ==
  /\ dpc = "done"
  /\ new_text = old_text
  /\ OldLen = 3
  /\ loop_i = 3
  /\ Styles(doc) = <<1, 2, 3>>

\* ------------------------------------------------------------- fairness
MainLoop ==
  \/ OnChunk \/ OnThinking \/ OnStreamDone \/ OnNextTool \/ OnToolDone
  \/ OnFinalDone \/ OnStopped \/ OnError
  \/ SimpleOnChunk \/ SimpleOnThinking \/ SimpleOnDone \/ SimpleOnError

\* every started thread runs to its end and the main thread keeps draining
FairSpec ==
  /\ Spec
  /\ WF_vars(WorkerReturn \/ WorkerRaise)
  /\ WF_vars(AsyncToolReturn)
  /\ WF_vars(MainLoop)

\* ------------------------------------------------------- the run's log
IsPrefix(a, b) == Len(a) <= Len(b) /\ SubSeq(b, 1, Len(a)) = a

\* ids of the events of one kind among the first n events
IdsOf(e, n) ==
  LET sel == SelectSeq(SubSeq(events, 1, n), LAMBDA x : x.e = e)
  IN [i \in 1..Len(sel) |-> sel[i].id]

Reqs == SelectSeq(events, LAMBDA x : x.e = "req")
ReqKinds == [i \in 1..Len(Reqs) |-> Reqs[i].k]

Emitted == IdsOf("emit", Len(events))
Started == IdsOf("exec", Len(events))
Applied == IdsOf("apply", Len(events))

RunEnded == ~send_busy /\ events # <<>>

\* positions in the log where the dispatch of the calls emitted so far is
\* over: a further model request is started there
NextRequestAt(p) == p \in 2..Len(events) /\ events[p].e = "req"

\* C1: a user turn issues at most max_tool_rounds + 1 model requests and
\* reaches a terminal state, whatever the model replies.
C1_Termination ==
  /\ [](Len(Reqs) <= max_tool_rounds + 1)
  /\ [](send_busy => <>(~send_busy))

\* a run that used all its max_tool_rounds + 1 requests and has ended
C1_Witness ==
  /\ RunEnded
  /\ max_tool_rounds = 2
  /\ Len(Reqs) = 3
  /\ terminal_status = "Ready"

Skipped(n) == \E i \in 1..n : events[i].e = "skip"

C3_OneAtATime ==
  /\ Cardinality(async_running) <= 1
  /\ IsPrefix(Started, Emitted)
  /\ IsPrefix(Applied, Started)
  /\ Len(Started) - Len(Applied) <= 1
  /\ \A tc \in async_running :
       /\ Len(Started) = Len(Applied) + 1
       /\ Started[Len(Started)] = tc.id

\* an asynchronous call runs on its thread while a later call waits
C3_Witness ==
  /\ async_running # {}
  /\ pending_tools # <<>>
  /\ q = <<>>
  /\ ~stop_requested

FinalAt(p) == p \in 1..Len(events) /\ events[p].e = "req" /\ events[p].k = "final"

\* C4: the final no-tool request is issued at most once, only after exactly
\* max_tool_rounds requests with tools (two of them for max_tool_rounds = 2),
\* and no tool call is dispatched and no request started after it.
C4_ForcedFinal ==
  \A p \in 1..Len(events) :
    FinalAt(p) =>
      /\ round_num = max_tool_rounds
      /\ Len(IdsOf("req", p)) = max_tool_rounds + 1
      /\ ReqKinds = [i \in 1..(max_tool_rounds + 1) |->
                       IF i <= max_tool_rounds THEN "tools" ELSE "final"]
      /\ \A r \in (p + 1)..Len(events) : events[r].e \notin {"req", "exec"}

\* max_rounds = 2 and a model that asked for a tool in both rounds
C4_Witness ==
  /\ RunEnded
  /\ max_tool_rounds = 2
  /\ ReqKinds = <<"tools", "tools", "final">>
  /\ Len(Applied) = 2
  /\ terminal_status = "Ready"

\* C5 as claimed: a run during which the stop flag was set ends in Stopped
\* with no thinking block left open.
C5_StopEndsStopped ==
  (~send_busy /\ stop_requested) =>
    (terminal_status = "Stopped" /\ ~thinking_open)

\* C6 as claimed: every tool message carries the id of a tool call of an
\* assistant message before it.
C6_ToolIdsReferenced ==
  \A i \in 1..Len(messages) :
    messages[i].role = "tool" =>
      \E j \in 1..(i - 1) :
        /\ messages[j].role = "assistant"
        /\ \E c \in 1..Len(messages[j].tool_calls) :
             messages[j].tool_calls[c] = messages[i].tool_call_id

\* the main loop takes the error item at the head of the queue
ErrorHandled ==
  q # <<>> /\ Head(q).kind = "error" /\ mode # "idle" /\ mode' = "idle"

\* C7: a run whose model request raised ends in Error with the API error
\* shown, and the step that ends it leaves the conversation as it was.
C7_ErrorKeepsHistory ==
  /\ []((~send_busy /\ backend_failed) =>
          (terminal_status = "Error" /\ "api_error" \in response))
  /\ [][ErrorHandled => messages' = messages]_vars

\* an Error end after a completed tool round of the same turn
C7_Witness ==
  /\ ~send_busy /\ backend_failed
  /\ terminal_status = "Error"
  /\ Len(Applied) >= 1
  /\ messages[Len(messages)].role = "tool"

FailingNames ==
  {n \in CallNames : n \notin DOMAIN RegisteredTools
                     \/ "calc" \notin RegisteredTools[n]}

\* the main loop takes the tool_done item at the head of the queue
ToolDoneHandled ==
  q # <<>> /\ Head(q).kind = "tool_done" /\ Len(q') <= Len(q) /\ q' # q

\* C8: the result of a call to an unknown tool, to a tool of another document
\* type or to a handler that raised is an error result; the loop appends it
\* as that call's tool message and goes on with the next call or round.
C8_ToolErrorsAreData ==
  /\ [](\A i \in 1..Len(q) :
          (q[i].kind = "tool_done"
             /\ (q[i].name \in FailingNames \/ q[i].result.detail = "exception"))
          => q[i].result.status = "error")
  /\ [][ToolDoneHandled
          => /\ messages' = add_tool_result(messages, Head(q).id,
                                            Head(q).result.status)
             /\ q' = Append(Tail(q), Plain("next_tool"))
             /\ mode' = "tools"
             /\ terminal_status' = terminal_status]_vars

\* a failed call was answered with an error and the next round was requested
C8_Witness ==
  /\ send_busy
  /\ llm.kind \in {"tools", "final"}
  /\ messages[Len(messages)].role = "tool"
  /\ messages[Len(messages)].content = "error"
  /\ Len(Reqs) >= 2

\* C17 as claimed: no worker thread reads or writes the document; every
\* document access is made by the coordinating thread.
C17_WorkersNeverTouchDocument == doc_access = {}

\* ------------------------------------------------ ToolRegistry.execute
Executed == reg.op = "execute"

\* C18: when the tool handler raises, execute raises nothing: it returns a
\* result with status error that carries the exception text.
C18_HandlerExceptionsContained ==
  (Executed /\ reg.did.called /\ reg.h = "raise") =>
    /\ ~reg.did.outcome.raised
    /\ reg.did.outcome.value = Result("error", "exception")

\* a handler raised with an event bus present: tool:failed was emitted
C18_Witness ==
  /\ Executed /\ reg.did.called /\ reg.h = "raise"
  /\ reg.did.emitted = <<"tool:executing", "tool:failed">>
  /\ reg.did.outcome.value.status = "error"

\* the tool declares doc_types and the context's doc_type is not among them
Mismatch ==
  /\ Executed /\ reg.tool.known
  /\ reg.tool.doc_types # {}
  /\ reg.doc_type \notin reg.tool.doc_types

\* execute raised the doc_type error and did nothing else
FailedUntouched ==
  /\ reg.did.outcome = Raised("ValueError")
  /\ ~reg.did.validated /\ ~reg.did.called
  /\ ~reg.did.invalidated /\ reg.did.emitted = <<>>

\* C19 as claimed: whenever the tool declares doc_types and the context's
\* doc_type is not one of them, execute fails with the doc_type error and
\* neither calls the handler, invalidates a cache nor emits an event.
C19_MismatchAlwaysFails == Mismatch => FailedUntouched

\* C19 amended: the same, for a context whose doc_type is set.
C19_KnownMismatchFails ==
  (Mismatch /\ reg.doc_type # NoDocType) => FailedUntouched

\* a mutation tool for Writer called on a Calc document, with an event bus
\* and a document service that a run would have used
C19_Witness ==
  /\ Mismatch /\ FailedUntouched
  /\ reg.doc_type = "calc"
  /\ reg.tool.is_mutation /\ ~reg.batch_mode
  /\ reg.services = {"events", "document"}
  /\ reg.h = "ok"

\* C20 as claimed: validation and the handler get only arguments whose names
\* are in the tool's declared parameter set.
C20_OnlyDeclaredArgs ==
  (Executed /\ reg.did.validated) => reg.did.passed \subseteq reg.tool.props

\* the call got past the lookup, the doc_type check and the validation
ReachedHandler == Executed /\ reg.did.called

\* C21 as claimed: a mutation tool with batch mode off invalidates the
\* document cache; batch mode on or a tool that is no mutation never does.
C21_MutationInvalidates ==
  Executed =>
    /\ (reg.tool.is_mutation /\ ~reg.batch_mode) => reg.did.invalidated
    /\ (reg.batch_mode \/ ~reg.tool.is_mutation) => ~reg.did.invalidated

\* C21: execute invalidates the document cache when the tool is a mutation,
\* batch mode is off, the call reaches the handler and a document service is
\* registered; with batch mode on or a tool that is no mutation it never
\* invalidates.
C21_InvalidatesWhenRun ==
  Executed =>
    /\ (/\ reg.tool.is_mutation /\ ~reg.batch_mode /\ ReachedHandler
        /\ "document" \in reg.services) => reg.did.invalidated
    /\ (reg.batch_mode \/ ~reg.tool.is_mutation) => ~reg.did.invalidated

\* a mutation tool whose handler ran with batch mode off and a document
\* service registered, and the cache was invalidated
C21_Witness ==
  /\ ReachedHandler
  /\ reg.tool.is_mutation /\ ~reg.batch_mode
  /\ "document" \in reg.services
  /\ reg.did.invalidated

\* ------------------------------------------------- the normalized candidate
\* a call of find or write has built the candidates of its search string
CandidatesBuilt ==
  /\ wr.op = "done"
  /\ \/ wr.tool = "find_text"
     \/ wr.tool = "apply_document_content" /\ wr.args.target = "search"

\* C23 as claimed: the normalized candidate of the search string contains no
\* carriage return and no two adjacent line feeds.
C23_BreaksCollapsed ==
  CandidatesBuilt =>
    \A n \in {normalized(wr.args.search)} :
      /\ \A i \in DOMAIN n : n[i] # CR
      /\ \A i \in 1..(Len(n) - 1) : ~(n[i] = LF /\ n[i + 1] = LF)

\* ------------------------------------ scratch documents and temp files
ScratchDone == wr.op = "done" /\ wr.tool \in {c.tool : c \in ScratchCalls}

\* every resource created at position i of the trace is released later on
Released(trace) ==
  \A i \in DOMAIN trace :
    /\ trace[i] = "mkstemp" => \E j \in DOMAIN trace : j > i /\ trace[j] = "unlink"
    /\ trace[i] = "open_doc" =>
         \E j \in DOMAIN trace : j > i /\ trace[j] = "close_doc"

\* C22 as claimed: when a routine that creates temp files or scratch documents
\* has returned or raised, each of them has been deleted or closed.
C22_ScratchReleased == ScratchDone => Released(wr.result.trace)

\* ------------------------------------- apply_document_content, find_text
WriteDone == wr.op = "done" /\ wr.tool = "apply_document_content"
FindDone == wr.op = "done" /\ wr.tool = "find_text"
SearchDone == WriteDone /\ wr.args.target = "search"

\* the offset of the first place where s stands in t
FirstOccurrence(t, s) ==
  CHOOSE i \in 0..(Len(t) - Len(s)) :
    /\ SubSeq(t, i + 1, i + Len(s)) = s
    /\ \A j \in 0..(i - 1) : SubSeq(t, j + 1, j + Len(s)) # s

\* a search with plain content and default flags for a string that stands in
\* the document
PlainSearchHit ==
  /\ SearchDone
  /\ ~wr.args.all_matches /\ wr.args.case_sensitive
  /\ ~content_has_markup(NormalizeEscapes(wr.args.content))
  /\ Contains(Text(doc0), wr.args.search)

\* the document is the old one with the first S replaced by T, and what is
\* outside that span is unchanged, characters and styles
FirstReplacedBy(T) ==
  LET t0 == Text(doc0)
      S == wr.args.search
      i == FirstOccurrence(t0, S)
  IN /\ Text(doc) = SubSeq(t0, 1, i) \o T \o SubSeq(t0, i + Len(S) + 1, Len(t0))
     /\ SubSeq(doc, 1, i) = SubSeq(doc0, 1, i)
     /\ SubSeq(doc, i + Len(T) + 1, Len(doc))
          = SubSeq(doc0, i + Len(S) + 1, Len(doc0))

\* C11 as claimed: after write(target=search, search=S, content=T) with plain
\* T and S in the document, the document is the old one with the first
\* occurrence of S replaced by T and everything outside that span unchanged.
C11_FirstReplacedByContent == PlainSearchHit => FirstReplacedBy(wr.args.content)

\* C11 amended: the same, with T read after its escaped line feeds and tabs
\* (a backslash followed by n or t) were turned into the characters.
C11_FirstReplacedByText ==
  PlainSearchHit => FirstReplacedBy(NormalizeEscapes(wr.args.content))

\* "aba" with search "a" and content "bb": only the first "a" is replaced
C11_Witness ==
  /\ PlainSearchHit
  /\ Text(doc0) = <<"a", "b", "a">>
  /\ wr.args.search = <<"a">> /\ wr.args.content = <<"b", "b">>
  /\ Text(doc) = <<"b", "b", "b", "a">>

\* the span a write replaced: the whole text, the given range, or the one
\* match of a search that replaces one match
HasSpan ==
  \/ wr.args.target \in {"full", "range"}
  \/ wr.args.target = "search" /\ ~wr.args.all_matches /\ wr.count = 1
SpanStart ==
  CASE wr.args.target = "full" -> 0
    [] wr.args.target = "range" -> wr.args.start
    [] OTHER -> findFirst(Text(doc0), wr.cand, wr.args.case_sensitive)
SpanEnd ==
  CASE wr.args.target = "full" -> Len(doc0)
    [] wr.args.target = "range" -> wr.args.end
    [] OTHER -> SpanStart + Len(wr.cand)

\* the span now reads T, every character T put on an old one has the old
\* one's style, and what is outside the span is unchanged
StylesKept(T) ==
  /\ Text(SubSeq(doc, SpanStart + 1, SpanStart + Len(T))) = T
  /\ \A i \in 1..Min(SpanEnd - SpanStart, Len(T)) :
       doc[SpanStart + i].st = doc0[SpanStart + i].st
  /\ SubSeq(doc, 1, SpanStart) = SubSeq(doc0, 1, SpanStart)
  /\ SubSeq(doc, SpanStart + Len(T) + 1, Len(doc))
       = SubSeq(doc0, SpanEnd + 1, Len(doc0))

\* C13: a write with target search, range or full goes through the
\* format-preserving replace exactly when the content holds none of the
\* markup patterns, and through the importer otherwise; a plain edit keeps
\* the styles of the characters it overwrites, an import of the whole
\* document brings its own.
C13_PlainKeepsStyles ==
  (WriteDone /\ wr.args.target \in {"search", "range", "full"}) =>
    LET T == NormalizeEscapes(wr.args.content)
    IN /\ wr.path = IF content_has_markup(T) THEN "import" ELSE "preserve"
       /\ wr.result.preserved = (wr.path = "preserve" /\ wr.count > 0)
       /\ (wr.path = "preserve" /\ HasSpan) => StylesKept(T)
       /\ (wr.path = "import" /\ wr.args.target = "full") =>
            \A i \in 1..Len(doc) : doc[i].st = DefaultStyle

\* "aba" in three styles, range [0, 2) written with the plain "bb"
C13_Witness ==
  /\ WriteDone /\ wr.args.target = "range"
  /\ wr.args.start = 0 /\ wr.args.end = 2
  /\ wr.args.content = <<"b", "b">>
  /\ wr.path = "preserve"
  /\ Text(doc0) = <<"a", "b", "a">>
  /\ Text(doc) = <<"b", "b", "a">>
  /\ Styles(doc) = <<1, 2, 3>>

\* the strings a search tries, in the order it tries them
Tried ==
  IF wr.tool = "find_text"
  THEN <<wr.args.search>>
       \o search_candidates_with_plain(wr.args.search, wr.host_ok)
  ELSE search_candidates_with_plain(wr.args.search, wr.host_ok)

\* candidate c stands in the old document at or after the start offset
Matches(c) ==
  \E i \in wr.args.start..(Len(doc0) - Len(c)) :
    MatchAt(Text(doc0), c, i, wr.args.case_sensitive)

\* text x is a match of candidate c
IsMatchOf(x, c) ==
  IF wr.args.case_sensitive THEN x = c ELSE str_lower(x) = str_lower(c)

\* the first of the candidates tried, in their order, that matches
Winners(tried) ==
  {tried[k] : k \in {n \in 1..Len(tried) :
                       /\ Matches(tried[n])
                       /\ \A j \in 1..(n - 1) : ~Matches(tried[j])}}

\* C14: the candidates are tried in list order up to the first one that
\* matches; every span one find or one write reports or replaces is a match
\* of that one candidate, and no span of another candidate is added.
C14_SingleCandidate ==
  ((FindDone /\ wr.args.start < Len(doc0)) \/ SearchDone) =>
    \A tried \in {Tried} :
      IF \A k \in 1..Len(tried) : ~Matches(tried[k])
      THEN IF FindDone THEN wr.result.ranges = <<>>
           ELSE wr.count = 0 /\ wr.texts = {}
      ELSE \A winner \in Winners(tried) :
             IF FindDone
             THEN LET r == wr.result.ranges
                  IN /\ r # <<>>
                     /\ \A j \in 1..Len(r) :
                          /\ IsMatchOf(r[j].text, winner)
                          /\ r[j].text = SubSeq(Text(doc0), r[j].start + 1,
                                                r[j].end)
             ELSE /\ wr.count >= 1
                  /\ wr.cand = winner
                  /\ \A x \in wr.texts : IsMatchOf(x, winner)

\* "a" and a paragraph break, searched for "## a": the candidates "a" and
\* "a" with a line feed both match, and only the match of "a" is reported
C14_Witness ==
  /\ FindDone /\ wr.host_ok
  /\ Text(doc0) = <<"a", LF>>
  /\ wr.args.search = <<"#", "#", " ", "a">>
  /\ wr.args.start = 0
  /\ Matches(<<"a">>) /\ Matches(<<"a", LF>>)
  /\ wr.result.ranges = <<Range(Text(doc0), 0, 1)>>

\* no candidate of the search string stands in the document
NothingMatches ==
  \A tried \in {Tried} : \A k \in 1..Len(tried) : ~Matches(tried[k])

\* C15: write(target=search) whose search string matches nothing after every
\* candidate was tried returns status ok with a count of zero and the hint
\* to use find_text and target range, and leaves the document unchanged.
C15_NoMatchIsOk ==
  (SearchDone /\ NothingMatches) =>
    /\ wr.result.status = "ok"
    /\ wr.result.count = 0
    /\ wr.result.hint
    /\ ~wr.result.preserved
    /\ doc = doc0

\* a heading searched in a document that holds other text: the raw string,
\* its line-break variants and its plain form were all tried
C15_Witness ==
  /\ SearchDone /\ NothingMatches /\ wr.host_ok
  /\ wr.args.search = <<"#", "#", " ", "a">>
  /\ Text(doc0) = <<"b", "b">>
  /\ Len(Tried) = 6
  /\ wr.result.count = 0 /\ wr.result.hint

\* find_text for "## " and P from the start of a document that holds P, the
\* host having rendered the search string to its plain form
HeadingSearch ==
  /\ FindDone /\ wr.host_ok /\ wr.args.start = 0
  /\ Len(wr.args.search) > 3
  /\ SubSeq(wr.args.search, 1, 3) = <<"#", "#", " ">>
  /\ Text(doc0) = SubSeq(wr.args.search, 4, Len(wr.args.search))

C24_FindSpans ==
  FindDone =>
    \A r \in {wr.result.ranges} :
      /\ \A i \in DOMAIN r :
           /\ r[i].start >= wr.args.start
           /\ r[i].end = r[i].start + Len(r[i].text)
           /\ r[i].text = SubSeq(Text(doc), r[i].start + 1, r[i].end)
           /\ i > 1 => r[i - 1].end <= r[i].start
      /\ wr.args.limit # NoLimit => Len(r) <= wr.args.limit

\* ------------------------------------------------------------- ChatSession
SystemAt(ms) == {i \in DOMAIN ms : ms[i].role = "system"}
PromptAt(ms) == {i \in SystemAt(ms) : ~IsDocContext(ms[i])}

\* C25 as claimed: the conversation holds at most one system message, and
\* when present it is the first message.
C25_OneSystemMessage == SystemAt(messages) \subseteq {1}

\* C25: the conversation holds at most one system prompt and at most one
\* document-context message, which has role system too; the system messages
\* are the first messages, the prompt before the document context.
C25_SystemMessagesLead ==
  \A sys \in {SystemAt(messages)} :
    /\ Cardinality(PromptAt(messages)) <= 1
    /\ Cardinality(sys \ PromptAt(messages)) <= 1
    /\ sys = 1..Cardinality(sys)
    /\ PromptAt(messages) \subseteq {1}

\* a prompt, a document context and a later message: two system messages
C25_Witness ==
  /\ Len(messages) >= 3
  /\ SystemAt(messages) = {1, 2}
  /\ PromptAt(messages) = {1}

Cleared == ses.op = "clear"

\* C26: after a clear the conversation is exactly the session's system
\* prompt when it has one and empty when it has none; the document context
\* and the user, assistant and tool messages are gone.
C26_ClearLeavesPrompt ==
  Cleared =>
    \A had \in {PromptAt(ses.found)} :
      /\ had = {} => messages = <<>>
      /\ had # {} => messages = <<Msg("system", "prompt", <<>>, NoId)>>

\* a clear of a conversation that held the prompt, the document context and a
\* user, an assistant and a tool message
C26_Witness ==
  /\ Cleared
  /\ messages = SessionInit
  /\ \E i \in DOMAIN ses.found : IsDocContext(ses.found[i])
  /\ {ses.found[i].role : i \in DOMAIN ses.found}
       = {"system", "user", "assistant", "tool"}

\* ------------------------------------------------ a reply without tool calls
\* the main loop takes a stream_done item without tool calls and ends the run
ReplyHandled ==
  /\ mode = "tools" /\ q # <<>>
  /\ Head(q).kind = "stream_done" /\ Head(q).calls = <<>>
  /\ mode' = "idle"

ConfigRejected == "config_error" \in response

\* the step of a send that validate_api_config stops
RejectedSend == turns' = turns + 1 /\ "config_error" \in response'

Inserted == WriteDone /\ wr.args.target \in {"beginning", "end", "selection"}

\* the document before the call without the selected range
KeptContent ==
  IF wr.args.target = "selection" /\ wr.sel.ok
  THEN DeleteAt(doc0, wr.sel.start, wr.sel.end - wr.sel.start)
  ELSE doc0

\* C29: after a write with target beginning, end or selection the document is
\* the old one, without the selected range when the target is selection, with
\* one block inserted: all other characters are present, in their order and
\* with their styles.
C29_InsertKeepsContent ==
  Inserted =>
    \A kept \in {KeptContent} :
      /\ Len(doc) >= Len(kept)
      /\ \E k \in 0..Len(kept) :
           /\ SubSeq(doc, 1, k) = SubSeq(kept, 1, k)
           /\ SubSeq(doc, Len(doc) - (Len(kept) - k) + 1, Len(doc))
                = SubSeq(kept, k + 1, Len(kept))

\* content inserted in place of a selection in the middle of the document
C29_Witness ==
  /\ Inserted /\ wr.args.target = "selection" /\ wr.sel.ok
  /\ Len(doc0) = 3 /\ wr.sel.start = 1 /\ wr.sel.end = 2
  /\ wr.args.content = <<"b", "b">>
  /\ Len(doc) = 4

\* ------------------------------------------------- cancellation and the diff
\* C30 as claimed: a cancellation requested while a format-preserving diff
\* runs is observed by the diff, which ends before it has processed the
\* whole span.
C30_CancelObserved ==
  (dpc = "done" /\ stop_requested) => loop_i < Min(OldLen, NewLen)

\* C31 as claimed: while a format-preserving diff runs over a long span,
\* control is handed to the host UI at least once in every
\* ProcessEventsEvery characters processed, whichever write target (search,
\* range, full) runs the diff.
C31_YieldsPeriodically ==
  (dpc \in {"loop", "done"} /\ diff_call.target \in {"search", "range", "full"})
    => diff_call.yields >= (loop_i - 1) \div ProcessEventsEvery

\* ------------------------------------------------------- schema listings
\* a listing has returned
Listed == reg.op \in {"get_openai_schemas", "get_mcp_schemas"}

\* the names of a sequence of names
Names(seq) == {seq[i] : i \in 1..Len(seq)}

\* C32 as claimed: a schema listing for docType and tier returns exactly the
\* registered tools that are compatible with docType and have the given
\* tier, and with a docType of None every registered tool is compatible: all
\* tools (of the given tier) are returned.
C32_SchemasOfCompatibleTools ==
  Listed =>
    Names(reg.listed) =
      {reg.tools[i].name : i \in
         {j \in 1..Len(reg.tools) :
            /\ \/ reg.doc_type = NoDocType
               \/ reg.tools[j].any_doc
               \/ reg.doc_type \in reg.tools[j].doc_types
            /\ reg.tier # NoTier => reg.tools[j].tier = reg.tier}}

\* execute raises ValueError for the listed tool t in a context of doc_type
IncompatibleAt(t, doc_type) ==
  execute(ToolDesc(t.doc_types, {}, FALSE), doc_type, {}, "ok", FALSE,
          {}).outcome = Raised("ValueError")

\* C39 as claimed: for every registered tool and every document type D, the
\* schema listing for D offers the tool if and only if execute does not
\* reject it as incompatible in a context whose document type is D.
C39_OfferedIffAccepted ==
  (Listed /\ reg.tier = NoTier) =>
    \A i \in 1..Len(reg.tools) :
      (reg.tools[i].name \in Names(reg.listed))
        <=> ~IncompatibleAt(reg.tools[i], reg.doc_type)

\* ------------------------------------------------ answered tool calls
\* the tool messages after position j that carry the call id
AnswersTo(j, id) ==
  {i \in (j + 1)..Len(messages) :
     messages[i].role = "tool" /\ messages[i].tool_call_id = id}

\* C33 as claimed: whenever a run has ended (Done, Stopped or Error), every
\* tool call listed in an assistant message of the conversation is followed
\* by exactly one tool message carrying that call's id, also when the run
\* was stopped or failed part-way through a dispatch round.
C33_EveryCallAnswered ==
  RunEnded =>
    \A j \in 1..Len(messages) :
      \A c \in 1..Len(messages[j].tool_calls) :
        Cardinality(AnswersTo(j, messages[j].tool_calls[c])) = 1

\* -------------------------------------------- requests after a seen stop
\* the main loop handles a next_tool item with the cancellation flag set: the
\* branch "if not pending_tools or self.stop_requested" reads the flag
StopSeenAtDispatch == InLoop("next_tool") /\ stop_requested

\* C34 as claimed: after the orchestrator has observed the cancellation flag
\* set, it starts no further model request in that run, neither a next-round
\* stream nor the forced final stream.
C34_NoRequestAfterStopSeen ==
  [][StopSeenAtDispatch => (Reqs' = Reqs /\ llm' = llm)]_vars

\* -------------------------------------------------- cache after execute
\* C35 as claimed: after execute of a mutating tool returns with batch mode
\* off, the document cache holds no value that was computed from the
\* document as it was before the tool's mutation, even if the handler
\* itself read through the cache before mutating.
C35_NoStaleCache ==
  (Executed /\ reg.tool.is_mutation /\ ~reg.batch_mode) =>
    reg.cache_after \in {NoLength, reg.length_after}

\* ------------------------------------------------ events of one execute
\* the positions after i at which the bus was told how the handler ended
ClosingsAfter(emitted, i) ==
  {j \in (i + 1)..Len(emitted) :
     emitted[j] \in {"tool:completed", "tool:failed"}}

\* C40: every tool:executing event that execute emits is followed, before
\* execute returns, by exactly one of tool:completed or tool:failed, and an
\* execution rejected before the handler runs (unknown tool, incompatible
\* document type, failed validation) emits none of these events.
C40_ExecutingIsClosed ==
  Executed =>
    /\ ~reg.did.called => reg.did.emitted = <<>>
    /\ \A i \in 1..Len(reg.did.emitted) :
         /\ reg.did.emitted[i] = "tool:executing"
              => Cardinality(ClosingsAfter(reg.did.emitted, i)) = 1
         /\ reg.did.emitted[i] # "tool:executing"
              => \E j \in 1..(i - 1) : reg.did.emitted[j] = "tool:executing"

\* a handler that ended normally under a registry with an event bus
C40_Witness ==
  /\ Executed /\ "events" \in reg.services
  /\ reg.did.called /\ reg.h = "ok"
  /\ reg.did.emitted = <<"tool:executing", "tool:completed">>

\* ------------------------------------------ replacing every occurrence
RECURSIVE Occurrences(_, _, _, _)
\* how often s stands in t from offset from on, counted left to right
\* without overlap
Occurrences(t, s, from, cs) ==
  LET f == findNext(t, s, from, cs)
  IN IF f = NotFound THEN 0 ELSE 1 + Occurrences(t, s, f + Len(s), cs)

\* a format-preserving search write with all_matches that found its string
ReplacedAll ==
  /\ SearchDone /\ wr.args.all_matches /\ wr.path = "preserve"
  /\ wr.count > 0 /\ wr.cand # <<>>

\* C36 as claimed: a format-preserving write(target=search, all_matches=true)
\* replaces each occurrence of the search text that stood in the document
\* before the call exactly once, never replaces text it has itself just
\* written, and reports a count equal to that number of occurrences.
C36_EachOccurrenceOnce ==
  ReplacedAll =>
    /\ wr.count = Occurrences(Text(doc0), wr.cand, 0, wr.args.case_sensitive)
    /\ wr.args.case_sensitive =>
         Text(doc) = str_replace(Text(doc0), wr.cand,
                                 NormalizeEscapes(wr.args.content))

\* ------------------------------------------ unparsable tool arguments
\* positions of the log where a call's arguments string could not be read
UnparsableAt(p) ==
  p \in 1..Len(events) /\ events[p].e = "parse" /\ events[p].k = "unparsable"

\* the contents of the tool messages that answer the call id
AnswerContents(id) ==
  {messages[i].content : i \in {j \in 1..Len(messages) :
     messages[j].role = "tool" /\ messages[j].tool_call_id = id}}

DoneSent ==
  /\ mode = "idle" /\ events # <<>>
  /\ events[Len(events)] = Ev("sse", "done", NoId)

\* C38 as claimed: in the HTTP chat loop, every chat request that ends with a
\* done event leaves an assistant message without tool calls as the last
\* message of the session conversation, also when the loop's round limit was
\* reached while the model still requested tools.
C38_DoneLeavesReply ==
  DoneSent =>
    /\ messages[Len(messages)].role = "assistant"
    /\ messages[Len(messages)].tool_calls = <<>>

====
